---- MODULE Spec2Model ----
(***************************************************************************)
(* Model of the interaction / catalog normalisation logic of the          *)
(* bidu-python-backend repository (app/services/interaction,              *)
(* app/services/product, app/db/repositories, app/constants,              *)
(* app/db/firebase.py, app/integrations/redis/base.py).                   *)
(*                                                                         *)
(* Representation of Python values                                         *)
(*   - a str is a TLA+ string; a str-valued dict key that is missing is   *)
(*     Absent                                                              *)
(*   - a number or None is a record [isNone, tenths]: Float(50) is 5.0,   *)
(*     Float(5) is 0.5, PyInt(3) is 3 (= 3.0, as in Python), PyNone is None *)
(*   - a nested dict that may be missing or null carries a kind:          *)
(*     "absent", "null" or "dict"                                          *)
(***************************************************************************)
EXTENDS Integers, Sequences, FiniteSets, TLC

VARIABLES
    order,             \* SpecScore: the order dict handed to _calculate_event_value
    event_value,       \* SpecScore: what the call returned
    score_pc,          \* SpecScore: "call" before the call, "returned" after it
    order_item,        \* SpecTransform: the order item handed to the transform
    personalize_data,  \* SpecTransform: the transform's outcome
    tr_pc,             \* SpecTransform: "call" before the call, "done" after it
    doc,               \* SpecFanout: the tracking document read from Firestore
    raw_interaction,   \* SpecFanout: the document after _handle_interaction_data
    records,           \* SpecFanout: the events the normaliser returned
    fan_pc,            \* SpecFanout: "fetched", "handled", "custom" or "ecommerce"
    product,           \* SpecStatus: the raw product row
    available_shops,   \* SpecStatus: the active-shop set handed to the resolver
    status,            \* SpecStatus: what _determine_product_status returned
    st_pc,             \* SpecStatus: "call" before the call, "returned" after it
    tracking_store,    \* SpecPipeline: the tracking records the event store returns
    order_item_store,  \* SpecPipeline: the order items the order store returns
    feedback_store,    \* SpecPipeline: the feedbacks the feedback store returns
    processed_interactions,    \* SpecPipeline: the list get_interactions_for_personalize builds
    personalize_interactions,  \* SpecPipeline: the list of the source loop that is running
    idx,               \* SpecPipeline: position of the running loop in its source
    pl_pc,             \* SpecPipeline: "start", "behavioral", "purchase", "review",
                       \*   "done" (returned) or "raised" (left by an exception)
    personalize_format,  \* SpecPipeline: "custom" or "ecommerce"
    tracking_fetch,    \* SpecPipeline: how the read of the event store went: "ok",
                       \*   "unavailable" or "raised" ("" before the read)
    raw_interactions,  \* SpecPipeline: what _get_interactions_for_personalize returned
    exception,         \* SpecPipeline: the call whose exception left the run ("" if none)
    price_product,     \* SpecPrice: the raw product row handed to extract_price_info
    price_info,        \* SpecPrice: the dict extract_price_info returned
    pr_pc,             \* SpecPrice: "call" before the call, "returned" after it
    categories,        \* SpecCategory: the flat category list read from the store
    tree,              \* SpecCategory: the tree get_tree_all built from it
    flat_categories,   \* SpecCategory: flatten_tree of the tree
    flat_again,        \* SpecCategory: flatten_tree of the tree rebuilt from flat_categories
    cat_pc,            \* SpecCategory: "list", "tree", "flat" or "round_trip"
    pg_source,         \* SpecPagination: the documents the query matches, in cursor order
    pg_limit,          \* SpecPagination: the limit argument (None or an int)
    all_results,       \* SpecPagination: the records accumulated so far
    last_doc,          \* SpecPagination: the cursor, the last document of the last batch
    requests,          \* SpecPagination: the queries streamed so far: start_after and limit
    pg_error,          \* SpecPagination: "" or what raised inside the loop: "stream", "handle"
    pg_result,         \* SpecPagination: the list the call returned
    pg_pc,             \* SpecPagination: "loop" while in `while True`, "returned" after
    px_format,         \* SpecProductExport: the format argument
    px_personalize_format, \* SpecProductExport: the personalize_format argument
    raw_products,      \* SpecProductExport: the rows the repository returned
    shop_store,        \* SpecProductExport: the approved shops in the database now
    px_available_shops, \* SpecProductExport: the local available_shops of the run
    shop_fetches,      \* SpecProductExport: calls of _get_available_shops in the run
    processed_products, \* SpecProductExport: the local list, [bound |-> FALSE] before it is assigned
    px_idx,            \* SpecProductExport: position of the `for product` loop
    px_result,         \* SpecProductExport: what the call returned or raised
    px_pc,             \* SpecProductExport: "call", "custom", "ecommerce", "export", "done"
    ie_format,         \* SpecInteractionExport: the format argument
    ie_personalize_format, \* SpecInteractionExport: the personalize_format argument
    ie_interactions,   \* SpecInteractionExport: what the sources hold for each format
    ie_processed,      \* SpecInteractionExport: the local processed_interactions
    ie_result,         \* SpecInteractionExport: what the call returned or raised
    ie_pc,             \* SpecInteractionExport: "call", "export" or "done"
    lk_key,            \* SpecLock: the key each set_with_lock caller writes
    lk_value,          \* SpecLock: the value each caller writes
    lock_store,        \* SpecLock: Redis, lock:<key> -> the caller whose SET NX created it
    redis_store,       \* SpecLock: Redis, key -> value
    lk_result,         \* SpecLock: the local result / the return value of each caller
    lk_pc,             \* SpecLock: per caller "call", "locked", "release", "returned"
    firebase_db,       \* SpecFirebase: the fields of the global FirebaseDB instance
    fb_config,         \* SpecFirebase: "True" when the settings carry Firebase credentials
    fb_attempts,       \* SpecFirebase: connection attempts made so far
    fb_failed,         \* SpecFirebase: TRUE once a connection attempt has failed
    fb_last,           \* SpecFirebase: outcome of the last call
    fb_calls           \* SpecFirebase: calls made so far

scoreVars == <<order, event_value, score_pc>>

transformVars == <<order_item, personalize_data, tr_pc>>

fanoutVars == <<doc, raw_interaction, records, fan_pc>>

statusVars == <<product, available_shops, status, st_pc>>

pipelineVars ==
    <<tracking_store, order_item_store, feedback_store, processed_interactions,
      personalize_interactions, idx, pl_pc, personalize_format, tracking_fetch,
      raw_interactions, exception>>

priceVars == <<price_product, price_info, pr_pc>>

categoryVars == <<categories, tree, flat_categories, flat_again, cat_pc>>

catalogVars == <<priceVars, categoryVars>>

pageVars ==
    <<pg_source, pg_limit, all_results, last_doc, requests, pg_error, pg_result, pg_pc>>

productExportVars ==
    <<px_format, px_personalize_format, raw_products, shop_store,
      px_available_shops, shop_fetches, processed_products, px_idx, px_result,
      px_pc>>

interactionExportVars ==
    <<ie_format, ie_personalize_format, ie_interactions, ie_processed, ie_result,
      ie_pc>>

lockVars == <<lk_key, lk_value, lock_store, redis_store, lk_result, lk_pc>>

firebaseVars == <<firebase_db, fb_config, fb_attempts, fb_failed, fb_last, fb_calls>>

serviceVars ==
    <<pageVars, productExportVars, interactionExportVars, lockVars, firebaseVars>>

vars ==
    <<scoreVars, transformVars, fanoutVars, statusVars, pipelineVars, catalogVars,
      serviceVars>>

----------------------------------------------------------------------------
(* Python values *)

Absent == "<absent>"

PyNone == [isNone |-> TRUE, tenths |-> 0]

Float(t) == [isNone |-> FALSE, tenths |-> t]

PyInt(n) == [isNone |-> FALSE, tenths |-> 10 * n]

\* bool(x) of a number or None
Truthy(x) == ~x.isNone /\ x.tenths # 0

\* dict.get(key, default) on a str-valued key
Get(value, default) == IF value = Absent THEN default ELSE value

\* str.lower() on the strings the model draws statuses from
lower(s) ==
    CASE s = "SHIPPING" -> "shipping"
      [] s = "PAID" -> "paid"
      [] s = "JSON" -> "json"
      [] s = "CSV" -> "csv"
      [] OTHER -> s

----------------------------------------------------------------------------
(* app/constants/variable.py *)

unknown == "unknown"

CASH_ID == "6080f987ca33c1913de1be38"
VNPAY_ID == "6080f24dca33c1913de1be35"
MOMO_ID == "6080f319ca33c1913de1be36"
BANK_CARD_ID == "632aca6e2c2071e01556e978"
MASTERCARD_VISA_ID == "632acad12c2071e01556e979"
ONEPAY_ID == "67c1433d444943956c790309"
MASTERCARD_VISA_ONEPAY_ID == "67d3926bbfaa50609c736fb9"
BANK_CARD_ONEPAY_ID == "67d39243bfaa50609c736fb8"

E_PAYMENT_IDS ==
    { VNPAY_ID, MOMO_ID, BANK_CARD_ID, MASTERCARD_VISA_ID, ONEPAY_ID,
      MASTERCARD_VISA_ONEPAY_ID, BANK_CARD_ONEPAY_ID }

ShippingStatus ==
    [ PENDING |-> "pending", WAIT_TO_PICK |-> "wait_to_pick",
      SHIPPING |-> "shipping", SHIPPED |-> "shipped",
      CANCELING |-> "canceling", CANCELED |-> "canceled",
      RETURN |-> "return", RETURNING |-> "returning" ]

PaymentStatus == [ PAID |-> "paid", PENDING |-> "pending" ]

get_payment_method_name(payment_method_id) ==
    IF payment_method_id = CASH_ID THEN "cash"
    ELSE IF payment_method_id \in E_PAYMENT_IDS THEN "epay"
    ELSE unknown

----------------------------------------------------------------------------
(* InteractionService: the purchase scoring matrix *)

\* Mutant: the two cancel rows merged into one that ignores payment_status.
cod_cancel_rows_merged(shipping_status, payment_status) ==
    IF /\ shipping_status = ShippingStatus.PENDING
       /\ payment_status = PaymentStatus.PENDING
    THEN Float(30)
    ELSE IF /\ shipping_status \in { ShippingStatus.WAIT_TO_PICK,
                                     ShippingStatus.SHIPPING,
                                     ShippingStatus.SHIPPED }
            /\ payment_status \in { PaymentStatus.PAID, PaymentStatus.PENDING }
    THEN Float(50)
    ELSE IF /\ shipping_status \in { ShippingStatus.CANCELING,
                                     ShippingStatus.CANCELED }
            /\ payment_status \in { PaymentStatus.PAID, PaymentStatus.PENDING }
    THEN Float(5)
    ELSE IF /\ shipping_status \in { ShippingStatus.RETURN,
                                     ShippingStatus.RETURNING }
            /\ payment_status \in { PaymentStatus.PAID, PaymentStatus.PENDING }
    THEN Float(15)
    ELSE PyNone

\* The function falls off its end (Python returns None) when no row matches.
_calculate_cod_event_value(shipping_status, payment_status) ==
    IF /\ shipping_status = ShippingStatus.PENDING
       /\ payment_status = PaymentStatus.PENDING
    THEN Float(30)
    ELSE IF /\ shipping_status \in { ShippingStatus.WAIT_TO_PICK,
                                     ShippingStatus.SHIPPING,
                                     ShippingStatus.SHIPPED }
            /\ payment_status \in { PaymentStatus.PAID, PaymentStatus.PENDING }
    THEN Float(50)
    ELSE IF /\ shipping_status \in { ShippingStatus.CANCELING,
                                     ShippingStatus.CANCELED }
            /\ payment_status = PaymentStatus.PENDING
    THEN Float(5)
    ELSE IF /\ shipping_status \in { ShippingStatus.CANCELING,
                                     ShippingStatus.CANCELED }
            /\ payment_status = PaymentStatus.PAID
    THEN Float(15)
    ELSE IF /\ shipping_status \in { ShippingStatus.RETURN,
                                     ShippingStatus.RETURNING }
            /\ payment_status \in { PaymentStatus.PAID, PaymentStatus.PENDING }
    THEN Float(15)
    ELSE PyNone

\* Mutant: the pending/pending row carries the COD weight.
epayment_pending_as_cod(shipping_status, payment_status) ==
    IF /\ shipping_status \in { ShippingStatus.WAIT_TO_PICK,
                                ShippingStatus.SHIPPING,
                                ShippingStatus.SHIPPED }
       /\ payment_status = PaymentStatus.PAID
    THEN Float(50)
    ELSE IF /\ shipping_status = ShippingStatus.PENDING
            /\ payment_status = PaymentStatus.PENDING
    THEN Float(30)
    ELSE IF /\ shipping_status \in { ShippingStatus.CANCELING,
                                     ShippingStatus.CANCELED }
            /\ payment_status = PaymentStatus.PAID
    THEN Float(20)
    ELSE IF /\ shipping_status \in { ShippingStatus.RETURN,
                                     ShippingStatus.RETURNING }
            /\ payment_status = PaymentStatus.PAID
    THEN Float(15)
    ELSE PyNone

_calculate_epayment_event_value(shipping_status, payment_status) ==
    IF /\ shipping_status \in { ShippingStatus.WAIT_TO_PICK,
                                ShippingStatus.SHIPPING,
                                ShippingStatus.SHIPPED }
       /\ payment_status = PaymentStatus.PAID
    THEN Float(50)
    ELSE IF /\ shipping_status = ShippingStatus.PENDING
            /\ payment_status = PaymentStatus.PENDING
    THEN Float(10)
    ELSE IF /\ shipping_status \in { ShippingStatus.CANCELING,
                                     ShippingStatus.CANCELED }
            /\ payment_status = PaymentStatus.PAID
    THEN Float(20)
    ELSE IF /\ shipping_status \in { ShippingStatus.RETURN,
                                     ShippingStatus.RETURNING }
            /\ payment_status = PaymentStatus.PAID
    THEN Float(15)
    ELSE PyNone

\* The keys of an order dict the service reads, plus _id.
OrderKeys ==
    { "_id", "payment_method_id", "shipping_status", "payment_status",
      "user_id", "shop_id" }

\* `not order`: the dict carries no key at all.
IsEmptyOrder(o) == /\ \A k \in OrderKeys : o[k] = Absent
                   /\ o.address.kind = "absent"

\* Mutant: every payment method that is not cash is scored as e-payment.
event_value_not_cash_is_epayment(o) ==
    IF IsEmptyOrder(o) THEN Float(0)
    ELSE LET payment_method_id == Get(o.payment_method_id, "")
             shipping_status == lower(Get(o.shipping_status, ""))
             payment_status == lower(Get(o.payment_status, ""))
         IN  IF payment_method_id = CASH_ID
             THEN _calculate_cod_event_value(shipping_status, payment_status)
             ELSE _calculate_epayment_event_value(shipping_status, payment_status)

_calculate_event_value(o) ==
    IF IsEmptyOrder(o) THEN Float(0)
    ELSE LET payment_method_id == Get(o.payment_method_id, "")
             shipping_status == lower(Get(o.shipping_status, ""))
             payment_status == lower(Get(o.payment_status, ""))
             is_cod == payment_method_id = CASH_ID
             is_epayment == payment_method_id \in E_PAYMENT_IDS
         IN  IF is_cod
             THEN _calculate_cod_event_value(shipping_status, payment_status)
             ELSE IF is_epayment
             THEN _calculate_epayment_event_value(shipping_status, payment_status)
             ELSE Float(5)

----------------------------------------------------------------------------
(* app/utils and app/services/interaction/constant.py *)

\* EventType: the event type names written to the output
EventType ==
    [ VIEW |-> "view", FAVORITE |-> "favorite", ADD_TO_CART |-> "add_to_cart",
      PURCHASE |-> "purchase", REVIEW |-> "review" ]

\* to_lower_strip: lower-cases and strips, on the names the model draws from
to_lower_strip(s) ==
    CASE s = "Ha Noi" -> "ha noi"
      [] s = " Hue " -> "hue"
      [] OTHER -> s

\* created_at of a stored document: missing, or a datetime that
\* convert_mongo_document has rendered as an ISO string of t seconds
NoTime == [kind |-> "absent", t |-> 0]

IsoTime(t) == [kind |-> "iso", t |-> t]

to_timestamp(date_value) ==
    IF date_value.kind = "absent" THEN PyNone ELSE PyInt(date_value.t)

----------------------------------------------------------------------------
(* InteractionService: the purchase transform *)

\* bool(d) of a variant / product snapshot: a dict with at least one key
DictTruthy(d) == d.kind = "dict" /\ (d.has_price \/ d.other_keys)

\* d.get("before_sale_price", 0)
PriceOf(d) == IF d.has_price THEN PyInt(d.before_sale_price) ELSE PyInt(0)

OrderValue(oi) ==
    IF DictTruthy(oi.variant) THEN PriceOf(oi.variant)
    ELSE IF DictTruthy(oi.product) THEN PriceOf(oi.product)
    ELSE PyInt(0)

\* buyer_address.get("country"): None (here Absent) when the order has no
\* address or the address no country
CountryOf(o) ==
    IF o.address.kind = "dict" THEN o.address.country ELSE Absent

\* AttributeError: .get on an address that is null, or on a null state
DeliveryLocationRaises(o) ==
    \/ o.address.kind = "null"
    \/ /\ o.address.kind = "dict"
       /\ o.address.country \in {"VN", ""}
       /\ o.address.state.kind = "null"

\* Mutant: the empty country is not treated as Vietnam.
delivery_location_vn_only(o) ==
    IF CountryOf(o) = "VN"
    THEN IF o.address.state.kind = "dict"
         THEN Get(o.address.state.name, unknown)
         ELSE unknown
    ELSE IF CountryOf(o) = "SG" THEN "singapore"
    ELSE unknown

\* delivery_location before to_lower_strip
DeliveryLocation(o) ==
    IF CountryOf(o) = "VN" \/ CountryOf(o) = ""
    THEN IF o.address.state.kind = "dict"
         THEN Get(o.address.state.name, unknown)
         ELSE unknown
    ELSE IF CountryOf(o) = "SG" THEN "singapore"
    ELSE unknown

\* order_item.get("quantity", 1)
QuantityOf(oi) == IF oi.quantity.has THEN oi.quantity.n ELSE 1

NoEvent ==
    [ USER_ID |-> "", ITEM_ID |-> "", EVENT_TYPE |-> "", TIMESTAMP |-> PyNone,
      SHOP_ID |-> "", EVENT_VALUE |-> PyNone, ORDER_VALUE |-> PyNone,
      BASKET_SIZE |-> 0, DELIVERY_LOCATION |-> "", PAYMENT_METHOD |-> "" ]

\* The outcome of one call: a dict, None (no order joined), or an exception
\* (the except clause logs and re-raises).
_transform_order_item_to_personalize(oi) ==
    IF Len(oi.order) = 0
    THEN [kind |-> "none", data |-> NoEvent]
    ELSE LET o == oi.order[1]
         IN  IF DeliveryLocationRaises(o)
             THEN [kind |-> "raise", data |-> NoEvent]
             ELSE [ kind |-> "dict",
                    data |->
                      [ USER_ID |-> Get(o.user_id, unknown),
                        ITEM_ID |-> Get(oi.product_id, unknown),
                        EVENT_TYPE |-> EventType.PURCHASE,
                        TIMESTAMP |-> to_timestamp(oi.created_at),
                        SHOP_ID |-> Get(o.shop_id, unknown),
                        EVENT_VALUE |-> _calculate_event_value(o),
                        ORDER_VALUE |-> OrderValue(oi),
                        BASKET_SIZE |-> QuantityOf(oi),
                        DELIVERY_LOCATION |-> to_lower_strip(DeliveryLocation(o)),
                        PAYMENT_METHOD |->
                            get_payment_method_name(Get(o.payment_method_id, unknown)) ] ]

----------------------------------------------------------------------------
(* InteractionService: behavioural events (one raw record, many events) *)

TrackingType ==
    [ VIEW_PRODUCT |-> "view_product", ADD_PRODUCT_TO_CART |-> "add_cart",
      BUY_PRODUCT |-> "buy_product",
      ADD_PRODUCT_TO_FAVORITE |-> "add_product_to_favorite",
      REVIEW |-> "review" ]

\* A timestamp as Firestore stores it: a datetime or an ISO string of t
\* seconds, a plain integer, or null.
\* convert_to_timestamp has no branch for what is neither datetime, str nor
\* list: it falls off its end and returns None.
convert_to_timestamp(value) ==
    IF value.kind = "datetime" THEN PyInt(value.t)
    ELSE IF value.kind = "str" THEN PyInt(value.t)
    ELSE PyNone

\* convert_to_timestamp on the visited_ats field: element-wise on a list,
\* None when the field is missing or null
ConvertVisitedAts(v) ==
    IF v.isList
    THEN [ isList |-> TRUE,
           items |-> [ i \in 1..Len(v.items) |-> convert_to_timestamp(v.items[i]) ] ]
    ELSE [ isList |-> FALSE, items |-> <<>> ]

_handle_interaction_data(d) ==
    [ actor_id |-> d.actor_id, target_id |-> d.target_id,
      action_type |-> d.action_type, shop_id |-> d.shop_id,
      created_at |-> convert_to_timestamp(d.created_at),
      visited_ats |-> ConvertVisitedAts(d.visited_ats) ]

\* visited_ats after `if not visited_ats: visited_ats = [created_at]`
VisitedOrCreated(raw) ==
    IF ~raw.visited_ats.isList \/ Len(raw.visited_ats.items) = 0
    THEN << raw.created_at >>
    ELSE raw.visited_ats.items

\* Mutant: every entry yields a record, the `if timestamp` test is gone.
timestamps_unfiltered(raw) == VisitedOrCreated(raw)

\* The timestamps a record is created for: `if timestamp`
EmittedTimestamps(raw) == SelectSeq(VisitedOrCreated(raw), Truthy)

\* Mutant: add_cart weighs as much as a favourite.
event_value_mapping_cart_is_2(event_type) ==
    CASE event_type = "view_product" -> PyInt(1)
      [] event_type = "add_product_to_favorite" -> PyInt(2)
      [] event_type = "add_cart" -> PyInt(2)
      [] OTHER -> PyInt(0)

\* event_value_mapping.get(event_type, 0) of the custom format
event_value_mapping(event_type) ==
    CASE event_type = "view_product" -> PyInt(1)
      [] event_type = "add_product_to_favorite" -> PyInt(2)
      [] event_type = "add_cart" -> Float(25)
      [] OTHER -> PyInt(0)

_process_interaction_for_personalize(raw) ==
    LET event_type == Get(raw.action_type, unknown)
        ts == EmittedTimestamps(raw)
    IN  [ i \in 1..Len(ts) |->
            [ ITEM_ID |-> Get(raw.target_id, unknown),
              USER_ID |-> Get(raw.actor_id, unknown),
              EVENT_TYPE |-> event_type,
              TIMESTAMP |-> ts[i],
              SHOP_ID |-> Get(raw.shop_id, unknown),
              EVENT_VALUE |-> event_value_mapping(event_type),
              ORDER_VALUE |-> PyInt(0),
              BASKET_SIZE |-> 0,
              PAYMENT_METHOD |-> unknown,
              DELIVERY_LOCATION |-> unknown ] ]

_convert_event_type_to_personalize(event_type) ==
    IF event_type = TrackingType.VIEW_PRODUCT THEN EventType.VIEW
    ELSE IF event_type = TrackingType.ADD_PRODUCT_TO_CART THEN EventType.ADD_TO_CART
    ELSE IF event_type = TrackingType.BUY_PRODUCT THEN EventType.PURCHASE
    ELSE IF event_type = TrackingType.ADD_PRODUCT_TO_FAVORITE THEN EventType.FAVORITE
    ELSE EventType.REVIEW

\* event_value_mapping.get(event_type, 0) of the ecommerce format
ecommerce_event_value_mapping(event_type) ==
    CASE event_type = EventType.VIEW -> PyInt(1)
      [] event_type = EventType.FAVORITE -> PyInt(2)
      [] event_type = EventType.ADD_TO_CART -> Float(25)
      [] OTHER -> PyInt(0)

_process_interaction_for_personalize_ecommerce(raw) ==
    LET event_type ==
            _convert_event_type_to_personalize(Get(raw.action_type, unknown))
        ts == EmittedTimestamps(raw)
    IN  [ i \in 1..Len(ts) |->
            [ USER_ID |-> Get(raw.actor_id, unknown),
              ITEM_ID |-> Get(raw.target_id, unknown),
              TIMESTAMP |-> ts[i],
              EVENT_TYPE |-> event_type,
              EVENT_VALUE |-> ecommerce_event_value_mapping(event_type) ] ]

----------------------------------------------------------------------------
(* InteractionService: review events and the source loops *)

\* feedback.get("vote_star", 0): vote_star 0 stands for a missing key
_transform_feedback_to_personalize(feedback) ==
    [ USER_ID |-> Get(feedback.user_id, unknown),
      ITEM_ID |-> Get(feedback.target_id, unknown),
      EVENT_TYPE |-> EventType.REVIEW,
      TIMESTAMP |-> to_timestamp(feedback.created_at),
      SHOP_ID |-> Get(feedback.shop_id, unknown),
      EVENT_VALUE |-> PyInt(feedback.vote_star),
      ORDER_VALUE |-> PyInt(0),
      BASKET_SIZE |-> 0,
      PAYMENT_METHOD |-> unknown,
      DELIVERY_LOCATION |-> unknown ]

\* the ecommerce format reads no address: the call returns a dict, or None
\* when no order is joined
_transform_order_item_to_personalize_ecommerce(oi) ==
    IF Len(oi.order) = 0
    THEN [kind |-> "none", data |-> NoEvent]
    ELSE LET o == oi.order[1]
         IN  [ kind |-> "dict",
               data |->
                 [ USER_ID |-> Get(o.user_id, unknown),
                   ITEM_ID |-> Get(oi.product_id, unknown),
                   TIMESTAMP |-> to_timestamp(oi.created_at),
                   EVENT_TYPE |-> EventType.PURCHASE,
                   EVENT_VALUE |-> _calculate_event_value(o) ] ]

_transform_feedback_to_personalize_ecommerce(feedback) ==
    [ USER_ID |-> Get(feedback.user_id, unknown),
      ITEM_ID |-> Get(feedback.target_id, unknown),
      TIMESTAMP |-> to_timestamp(feedback.created_at),
      EVENT_TYPE |-> EventType.REVIEW,
      EVENT_VALUE |-> PyInt(feedback.vote_star) ]

\* Mutant: the new events are put in front of the list.
extend_front(list, items) == items \o list

\* list.extend(items)
extend(list, items) == list \o items

\* Mutant: the loop appends whatever the transform returned.
keep_every_result(result) == TRUE

\* `if not personalize_interaction: continue` of the source loops
KeepInteraction(result) == result.kind = "dict"

----------------------------------------------------------------------------
(* ProductService: the product status resolver *)

ProductStatus ==
    [ PENDING |-> "pending", DELETED |-> "deleted", ACTIVE |-> "active",
      DRAFT |-> "draft", UNAVAILABLE |-> "unavailable" ]

ApprovalStatus == [ APPROVED |-> "approved", DRAFT |-> "draft" ]

\* product.get("deleted_at") is not None
_is_product_deleted(p) == p.deleted_at.kind # "absent"

\* Mutant: is_sold_out is tested for falsiness, so a missing flag counts as
\* not sold out.
status_sold_out_falsy(p, shops) ==
    IF _is_product_deleted(p) THEN ProductStatus.DELETED
    ELSE IF p.shop_id \notin shops THEN ProductStatus.UNAVAILABLE
    ELSE IF /\ p.is_approved = ApprovalStatus.APPROVED
            /\ p.allow_to_sell = "True"
            /\ p.is_sold_out # "True"
    THEN ProductStatus.ACTIVE
    ELSE IF p.is_approved = ApprovalStatus.DRAFT THEN ProductStatus.DRAFT
    ELSE ProductStatus.UNAVAILABLE

\* Mutant: the active-shop test comes first, so a deleted product of a shop
\* that is not active reads as unavailable.
status_shop_before_deleted(p, shops) ==
    IF p.shop_id \notin shops THEN ProductStatus.UNAVAILABLE
    ELSE IF _is_product_deleted(p) THEN ProductStatus.DELETED
    ELSE IF /\ p.is_approved = ApprovalStatus.APPROVED
            /\ p.allow_to_sell = "True"
            /\ p.is_sold_out = "False"
    THEN ProductStatus.ACTIVE
    ELSE IF p.is_approved = ApprovalStatus.DRAFT THEN ProductStatus.DRAFT
    ELSE ProductStatus.UNAVAILABLE

\* allow_to_sell and is_sold_out are "True", "False" or "None" (key missing):
\* `and allow_to_sell` is truthiness, `is_sold_out is False` is identity.
_determine_product_status(p, shops) ==
    IF _is_product_deleted(p) THEN ProductStatus.DELETED
    ELSE IF p.shop_id \notin shops THEN ProductStatus.UNAVAILABLE
    ELSE IF /\ p.is_approved = ApprovalStatus.APPROVED
            /\ p.allow_to_sell = "True"
            /\ p.is_sold_out = "False"
    THEN ProductStatus.ACTIVE
    ELSE IF p.is_approved = ApprovalStatus.DRAFT THEN ProductStatus.DRAFT
    ELSE ProductStatus.UNAVAILABLE

----------------------------------------------------------------------------
(* ProductService: price aggregation over the variants of a product *)

RECURSIVE ScanPrices(_, _, _, _)
\* the `for item in variants` loop for one price field, from item i on:
\* a price that is None is passed over, any other price moves the running
\* min / max
ScanPrices(variants, field, i, run) ==
    IF i > Len(variants) THEN run
    ELSE LET price == variants[i][field]
             next ==
                 IF price.isNone THEN run
                 ELSE [ min |-> IF run.min.isNone \/ price.tenths < run.min.tenths
                                THEN price ELSE run.min,
                        max |-> IF run.max.isNone \/ price.tenths > run.max.tenths
                                THEN price ELSE run.max ]
         IN  ScanPrices(variants, field, i + 1, next)

NoMinMax == [min |-> PyNone, max |-> PyNone]

\* Mutant: the running min and max of before_sale_price change places.
price_min_max_swapped(variants) ==
    LET before == ScanPrices(variants, "before_sale_price", 1, NoMinMax)
    IN  [ sale_price_min_max |-> ScanPrices(variants, "sale_price", 1, NoMinMax),
          before_sale_price_min_max |-> [min |-> before.max, max |-> before.min] ]

_price_min_max_variants(variants) ==
    [ sale_price_min_max |-> ScanPrices(variants, "sale_price", 1, NoMinMax),
      before_sale_price_min_max |->
          ScanPrices(variants, "before_sale_price", 1, NoMinMax) ]

\* `if variants` is the truthiness of the list: the product's own price is
\* read only when the list is empty (or the key is missing)
extract_price_info(p) ==
    IF p.variants # <<>>
    THEN LET price_variants == _price_min_max_variants(p.variants)
         IN  [ PRICE_MIN |-> price_variants.before_sale_price_min_max.min,
               PRICE_MAX |-> price_variants.before_sale_price_min_max.max ]
    ELSE [ PRICE_MIN |-> p.before_sale_price, PRICE_MAX |-> p.before_sale_price ]

----------------------------------------------------------------------------
(* ECategoryRepository: the category tree *)

\* None as the parent_id of a root category
NullId == "<None>"

RECURSIVE build_tree_reversed(_, _, _)
\* Mutant: the matching items are appended in reverse order.
build_tree_reversed(data, parent_id, level) ==
    LET matched == SelectSeq(data, LAMBDA item : item.parent_id = parent_id)
        n == Len(matched)
    IN  [ i \in 1..n |->
            [ id |-> matched[n + 1 - i].id,
              name |-> matched[n + 1 - i].name,
              parent_id |-> matched[n + 1 - i].parent_id,
              level |-> level,
              childs |-> build_tree_reversed(data, matched[n + 1 - i].id, level + 1) ] ]

RECURSIVE build_tree(_, _, _)
\* the list `res` the call fills: every item of data whose parent_id equals
\* parent_id, in the order of data, with its level and its own childs
build_tree(data, parent_id, level) ==
    LET matched == SelectSeq(data, LAMBDA item : item.parent_id = parent_id)
    IN  [ i \in 1..Len(matched) |->
            [ id |-> matched[i].id,
              name |-> matched[i].name,
              parent_id |-> matched[i].parent_id,
              level |-> level,
              childs |-> build_tree(data, matched[i].id, level + 1) ] ]

\* root_category is None; the deep copy leaves data as it was
get_tree_all(data) == build_tree(data, NullId, 1)

RECURSIVE flatten_tree_same_level(_, _, _)
\* Mutant: the recursion into childs passes level on unchanged.
flatten_tree_same_level(nodes, level, parent_id) ==
    IF nodes = <<>> THEN <<>>
    ELSE LET node == Head(nodes)
         IN  << [ id |-> node.id, name |-> node.name, level |-> level,
                  parent_id |-> parent_id ] >>
                 \o (IF node.childs # <<>>
                     THEN flatten_tree_same_level(node.childs, level, node.id)
                     ELSE <<>>)
                 \o flatten_tree_same_level(Tail(nodes), level, parent_id)

RECURSIVE flatten_tree(_, _, _)
\* depth first: a node, then its childs one level down with the node as
\* parent, then the node's next sibling
flatten_tree(nodes, level, parent_id) ==
    IF nodes = <<>> THEN <<>>
    ELSE LET node == Head(nodes)
         IN  << [ id |-> node.id, name |-> node.name, level |-> level,
                  parent_id |-> parent_id ] >>
                 \o (IF node.childs # <<>>
                     THEN flatten_tree(node.childs, level + 1, node.id)
                     ELSE <<>>)
                 \o flatten_tree(Tail(nodes), level, parent_id)

----------------------------------------------------------------------------
(* app/services/interaction/interaction.py: _execute_tracking_query_paginated *)

\* last_doc = None before the first batch
NoDocument == "<no document>"

\* batch_size = 1000 in the source, scaled down
batch_size == 2

\* Mutant: the limit is tested with `is not None`, so 0 counts as a limit.
limit_is_not_none(limit, results) ==
    IF ~limit.isNone THEN (limit.tenths \div 10) - Len(results) ELSE batch_size

\* remaining = (limit - len(all_results)) if limit else batch_size
remaining(limit, results) ==
    IF Truthy(limit) THEN (limit.tenths \div 10) - Len(results) ELSE batch_size

\* Mutant: every query asks for a full batch.
always_batch_size(rem) == batch_size

\* current_batch_size = min(batch_size, remaining)
current_batch_size(rem) == IF batch_size < rem THEN batch_size ELSE rem

\* Mutant: the cursor is ignored, every query reads from the start.
stream_from_start(source, cursor, size) ==
    SubSeq(source, 1, IF Len(source) < size THEN Len(source) ELSE size)

\* base_query.start_after(last_doc).limit(size) if last_doc else
\* base_query.limit(size), then list(query.stream()): the documents of the
\* query that follow the cursor, at most size of them
stream(source, cursor, size) ==
    LET from == IF cursor = NoDocument
                THEN 0
                ELSE CHOOSE i \in 1..Len(source) : source[i] = cursor
        to == IF Len(source) < from + size THEN Len(source) ELSE from + size
    IN  SubSeq(source, from + 1, to)

\* batch_results = self._handle_interaction_data(docs): one record for every
\* document of the batch, in the order of the batch, with data["id"] = doc.id
batch_results(docs) == [i \in 1..Len(docs) |-> [id |-> docs[i]]]

\* Mutant: the cursor is the first document of the batch.
first_of_batch(docs) == docs[1]

\* last_doc = docs[-1]
next_last_doc(docs) == docs[Len(docs)]

\* Mutant: the batch that raised is added all the same.
keep_batch_in_flight(results, docs) == results \o batch_results(docs)

\* except Exception: break, the batch in flight is not added
results_on_exception(results, docs) == results

\* all_results[:limit] if limit and len(all_results) > limit else all_results
paginated_return(results, limit) ==
    IF Truthy(limit) /\ Len(results) > limit.tenths \div 10
    THEN LET n == limit.tenths \div 10
             stop == IF n >= 0 THEN n
                     ELSE IF Len(results) + n > 0 THEN Len(results) + n ELSE 0
         IN  SubSeq(results, 1, stop)
    ELSE results

----------------------------------------------------------------------------
(* ProductService.export_products_for_personalize *)

\* a local name that no branch has assigned yet
Unbound == [bound |-> FALSE, rows |-> <<>>]

Bound(rows) == [bound |-> TRUE, rows |-> rows]

\* Mutant: the shops are read again for every product.
shops_read_per_product(fetched, store) == store

\* the available_shops argument of _process_single_product: the list read
\* before the loop, whatever the shop collection holds by now
shops_for_product(fetched, store) == fetched

\* _process_single_product: ITEM_ID and ITEM_STATUS of the row
_process_single_product(p, shops) ==
    [ITEM_ID |-> p._id, ITEM_STATUS |-> _determine_product_status(p, shops)]

\* _process_single_product_for_ecommerce: no status in this format
_process_single_product_for_ecommerce(p) ==
    [ITEM_ID |-> p._id, ITEM_STATUS |-> Absent]

\* return values and exceptions of the export calls
NotReturned == [kind |-> "", detail |-> "", rows |-> <<>>]

NoDataResult == [kind |-> "success_false", detail |-> "", rows |-> <<>>]

ExportResult(format, rows) == [kind |-> "export", detail |-> format, rows |-> rows]

\* app/core/exceptions.py: raise DatabaseException(detail=...str(e))
DatabaseException(e) == [kind |-> "DatabaseException", detail |-> e, rows |-> <<>>]

\* the tail of export_products_for_personalize: the format branches inside
\* try / except Exception
_export_products(format, processed) ==
    IF lower(format) \in {"json", "csv"}
    THEN IF processed.bound
         THEN ExportResult(lower(format), processed.rows)
         ELSE DatabaseException("UnboundLocalError")
    ELSE DatabaseException("BadRequestException")

----------------------------------------------------------------------------
(* InteractionService.export_interactions_for_personalize *)

\* an exception on its way out of a call
Raised(e) == [kind |-> "raised", detail |-> e, rows |-> <<>>]

\* _export_to_format: no data, json, csv, or BadRequestException
_export_to_format(data, format) ==
    IF data = <<>> THEN NoDataResult
    ELSE IF lower(format) = "json" THEN ExportResult("json", data)
    ELSE IF lower(format) = "csv" THEN ExportResult("csv", data)
    ELSE Raised("BadRequestException")

\* try: return ... except Exception as e: raise DatabaseException(...)
except_Exception(outcome) ==
    IF outcome.kind = "raised" THEN DatabaseException(outcome.detail) ELSE outcome

----------------------------------------------------------------------------
(* app/integrations/redis/base.py: acquire_lock, release_lock, set_with_lock *)

\* no lock:<key> entry, no value under a key
NoHolder == "<none>"

\* client.set(lock_key, "1", ex=ttl, nx=True): stored only when the key is
\* missing; the stored value "1" does not tell callers apart, the model keeps
\* the name of the caller whose SET created the entry
acquire_lock(locks, key, caller) ==
    IF locks[key] = NoHolder
    THEN [acquired |-> TRUE, locks |-> [locks EXCEPT ![key] = caller]]
    ELSE [acquired |-> FALSE, locks |-> locks]

\* client.delete(lock_key): the entry goes, whoever created it
release_lock(locks, key) == [locks EXCEPT ![key] = NoHolder]

----------------------------------------------------------------------------
(* app/db/firebase.py: FirebaseDB *)

\* __init__
FirebaseDB ==
    [app |-> "None", firestore_client |-> "None",
     _connected |-> FALSE, _connection_attempted |-> FALSE]

\* what one connection attempt can meet
ConnectOutcomes(config) ==
    IF config = "True"
    THEN {"initialize_app raises", "firestore.client raises", "connected"}
    ELSE {"no config"}

\* _ensure_connection: the instance after the call, whether the call raised
\* RuntimeError and whether it tried to connect
_ensure_connection(self, outcome) ==
    IF self._connected
    THEN [self |-> self, raised |-> FALSE, attempted |-> FALSE]
    ELSE IF self._connection_attempted
    THEN [self |-> self, raised |-> TRUE, attempted |-> FALSE]
    ELSE LET marked == [self EXCEPT !._connection_attempted = TRUE]
         IN  CASE outcome = "connected" ->
                    [self |-> [marked EXCEPT !.app = "App",
                                             !.firestore_client = "Client",
                                             !._connected = TRUE],
                     raised |-> FALSE, attempted |-> TRUE]
               [] outcome = "firestore.client raises" ->
                    [self |-> [marked EXCEPT !.app = "App", !._connected = FALSE],
                     raised |-> TRUE, attempted |-> TRUE]
               [] OTHER ->
                    [self |-> [marked EXCEPT !._connected = FALSE],
                     raised |-> TRUE, attempted |-> TRUE]

\* disconnect: `if self.app:` delete_app and reset; an exception is only logged
disconnect(self, delete_app_raises) ==
    IF self.app # "None" /\ ~delete_app_raises THEN FirebaseDB ELSE self

----------------------------------------------------------------------------
(* Input domains *)

ListedShipping ==
    { "pending", "wait_to_pick", "shipping", "shipped",
      "canceling", "canceled", "return", "returning" }

\* shipping_status as stored: a listed value, a value in another case,
\* a value outside the enum, or no value
ShippingValues == ListedShipping \cup { "SHIPPING", "delivered", Absent }

PaymentValues == { "paid", "pending", "PAID", "refunded", Absent }

PaymentMethodValues ==
    { CASH_ID } \cup E_PAYMENT_IDS \cup { "5f0000000000000000000000", Absent }

NoAddress == [kind |-> "absent", country |-> Absent,
              state |-> [kind |-> "absent", name |-> Absent]]

\* An order as $lookup/$project returns it: _id is always there.
ScoreOrders ==
    [ _id : {"o1"},
      payment_method_id : PaymentMethodValues,
      shipping_status : ShippingValues,
      payment_status : PaymentValues,
      user_id : {"u1"},
      shop_id : {"s1"},
      address : {NoAddress} ]

\* Bounds of the input domains
MaxPrice == 2

MaxQuantity == 2

MaxTime == 2

Prices == { 100 * k : k \in 1..MaxPrice }

NoState == [kind |-> "absent", name |-> Absent]

NullState == [kind |-> "null", name |-> Absent]

StateNames == { "Ha Noi", " Hue ", "da nang", Absent }

States ==
    { NoState, NullState } \cup { [kind |-> "dict", name |-> n] : n \in StateNames }

Countries == { "VN", "", "SG", "US", Absent }

NullAddress == [kind |-> "null", country |-> Absent, state |-> NoState]

Addresses ==
    { NoAddress, NullAddress }
        \cup { [kind |-> "dict", country |-> c, state |-> st] :
                 c \in Countries, st \in States }

\* (payment_method_id, shipping_status, payment_status) of the orders the
\* transform is run on: one per class, and one COD pair outside the table
TransformScoring ==
    { <<CASH_ID, "shipping", "paid">>, <<CASH_ID, "pending", "paid">>,
      <<VNPAY_ID, "pending", "pending">>, <<Absent, "shipped", "paid">> }

TransformOrders ==
    { [ _id |-> "o1", payment_method_id |-> sc[1], shipping_status |-> sc[2],
        payment_status |-> sc[3], user_id |-> "u1", shop_id |-> "s1",
        address |-> a ] : sc \in TransformScoring, a \in Addresses }

NoSnapshot ==
    [kind |-> "absent", has_price |-> FALSE, other_keys |-> FALSE,
     before_sale_price |-> 0]

NullSnapshot ==
    [kind |-> "null", has_price |-> FALSE, other_keys |-> FALSE,
     before_sale_price |-> 0]

\* a variant / product snapshot: missing, null, {}, a dict without a price,
\* or a dict with one
Snapshots ==
    { NoSnapshot, NullSnapshot }
        \cup { [kind |-> "dict", has_price |-> FALSE, other_keys |-> k,
                before_sale_price |-> 0] : k \in BOOLEAN }
        \cup { [kind |-> "dict", has_price |-> TRUE, other_keys |-> TRUE,
                before_sale_price |-> p] : p \in Prices }

Quantities ==
    { [has |-> FALSE, n |-> 0] } \cup { [has |-> TRUE, n |-> q] : q \in 1..MaxQuantity }

Times == { NoTime } \cup { IsoTime(t) : t \in 1..MaxTime }

\* An order item as get_all_order_items returns it: "order" holds the joined
\* order, or nothing when no order has the item's order_id.
TransformOrderItems ==
    [ order : { <<>> } \cup { <<o>> : o \in TransformOrders },
      product_id : {"p1"},
      quantity : Quantities,
      created_at : Times,
      variant : Snapshots,
      product : Snapshots ]

NoOrderItem ==
    [ order |-> <<>>, product_id |-> "p1", quantity |-> [has |-> FALSE, n |-> 0],
      created_at |-> NoTime, variant |-> NoSnapshot, product |-> NoSnapshot ]

NoOrder ==
    [ _id |-> "o1", payment_method_id |-> Absent, shipping_status |-> Absent,
      payment_status |-> Absent, user_id |-> "u1", shop_id |-> "s1",
      address |-> NoAddress ]

NoResult == [kind |-> "none", data |-> NoEvent]

MaxVisits == 3

\* the values a stored timestamp field takes
StoredTimes ==
    { [kind |-> k, t |-> t] : k \in {"datetime", "str"}, t \in 1..MaxTime }
        \cup { [kind |-> "int", t |-> 1], [kind |-> "null", t |-> 0] }

NoVisitedAts == [isList |-> FALSE, items |-> <<>>]

VisitedAtsValues ==
    { NoVisitedAts }
        \cup { [isList |-> TRUE, items |-> q] :
                 q \in UNION { [1..n -> StoredTimes] : n \in 0..MaxVisits } }

ActionTypes ==
    { "view_product", "add_cart", "add_product_to_favorite", "buy_product",
      "review", "share_product", Absent }

TrackingDocs ==
    [ actor_id : {"u1"}, target_id : {"p1"}, shop_id : {"s1", Absent},
      action_type : ActionTypes,
      created_at : { [kind |-> "datetime", t |-> 1], [kind |-> "null", t |-> 0] },
      visited_ats : VisitedAtsValues ]

NoDoc ==
    [ actor_id |-> "u1", target_id |-> "p1", shop_id |-> "s1",
      action_type |-> Absent, created_at |-> [kind |-> "null", t |-> 0],
      visited_ats |-> NoVisitedAts ]

MaxShops == 2

ShopNames == << "s1", "s2", "s3", "s4" >>

ShopIds == { ShopNames[i] : i \in 1..MaxShops }

PyBools == { "True", "False", "None" }

\* A product row as the catalog aggregation returns it; a key the row does
\* not carry reads as None.
Products ==
    [ deleted_at : { NoTime, IsoTime(1) },
      shop_id : ShopIds \cup { Absent },
      is_approved : { "approved", "draft", "pending", "reject", Absent },
      allow_to_sell : PyBools,
      is_sold_out : PyBools ]

NoProduct ==
    [ deleted_at |-> NoTime, shop_id |-> Absent, is_approved |-> Absent,
      allow_to_sell |-> "None", is_sold_out |-> "None" ]

MaxTracking == 1

MaxOrderItems == 2

MaxFeedbacks == 1

\* sequences over S of length at most n
SeqUpTo(S, n) == UNION { [1..k -> S] : k \in 0..n }

\* The tracking records of the pipeline runs: a view seen twice, an
\* add-to-cart without visited_ats, a favourite whose only visit is null
PipelineTracking ==
    { _handle_interaction_data(d) : d \in
        { [ actor_id |-> "u1", target_id |-> "p1", shop_id |-> "s1",
            action_type |-> "view_product",
            created_at |-> [kind |-> "datetime", t |-> 1],
            visited_ats |-> [isList |-> TRUE,
                             items |-> << [kind |-> "datetime", t |-> 1],
                                          [kind |-> "datetime", t |-> 2] >>] ],
          [ actor_id |-> "u1", target_id |-> "p1", shop_id |-> "s1",
            action_type |-> "add_cart",
            created_at |-> [kind |-> "datetime", t |-> 1],
            visited_ats |-> NoVisitedAts ],
          [ actor_id |-> "u1", target_id |-> "p1", shop_id |-> Absent,
            action_type |-> "add_product_to_favorite",
            created_at |-> [kind |-> "datetime", t |-> 1],
            visited_ats |-> [isList |-> TRUE,
                             items |-> << [kind |-> "null", t |-> 0] >>] ] } }

PipelineAddress ==
    [kind |-> "dict", country |-> "VN", state |-> [kind |-> "dict", name |-> "Ha Noi"]]

PipelineVariant ==
    [kind |-> "dict", has_price |-> TRUE, other_keys |-> TRUE, before_sale_price |-> 100]

\* The order items of the pipeline runs: one without a joined order, one
\* whose order address is null, and one order per payment class, the COD
\* one both inside and outside the scoring table
PipelineOrderItems ==
    { oi \in TransformOrderItems :
        /\ oi.quantity = [has |-> TRUE, n |-> 1]
        /\ oi.created_at = IsoTime(1)
        /\ oi.variant = PipelineVariant
        /\ oi.product = NoSnapshot
        /\ \/ oi.order = <<>>
           \/ /\ oi.order # <<>>
              /\ \/ oi.order[1].address = PipelineAddress
                 \/ /\ oi.order[1].address = NullAddress
                    /\ oi.order[1].payment_method_id = VNPAY_ID }

VoteStars == 1..5

PipelineFeedbacks ==
    [ user_id : {"u1"}, target_id : {"p1"}, shop_id : {"s1"},
      vote_star : { v \in VoteStars : v - 1 \notin VoteStars \/ v + 1 \notin VoteStars },
      created_at : { IsoTime(2) } ]

MaxVariants == 2

MaxVariantPrice == 2

\* before_sale_price of a variant: missing / null, negative, zero or positive
VariantPrices == { PyNone } \cup { PyInt(k) : k \in -1..MaxVariantPrice }

Variants == [ before_sale_price : VariantPrices, sale_price : { PyNone, PyInt(1) } ]

\* A product row with its joined variants; before_sale_price is None when
\* the row does not carry the key.
PriceProducts ==
    [ variants : SeqUpTo(Variants, MaxVariants),
      before_sale_price : { PyNone } \cup { PyInt(v) : v \in Prices } ]

NoPriceProduct == [ variants |-> <<>>, before_sale_price |-> PyNone ]

NoPriceInfo == [ PRICE_MIN |-> PyNone, PRICE_MAX |-> PyNone ]

MaxCategories == 3

CategoryNames == << "c1", "c2", "c3", "c4", "c5" >>

CategoryIds == { CategoryNames[i] : i \in 1..MaxCategories }

\* an id no category of the list carries
MissingId == "c0"

CategoryItems ==
    { [ id |-> c, name |-> c, parent_id |-> parent ] :
        c \in CategoryIds, parent \in CategoryIds \cup { NullId, MissingId } }

\* The flat lists the store returns: documents with distinct ids, in any
\* order, each with any parent_id.
CategoryLists ==
    { l \in SeqUpTo(CategoryItems, MaxCategories) :
        \A i, j \in 1..Len(l) : l[i].id = l[j].id => i = j }

\* the tracking documents a query can match, in cursor order
MaxRecords == 5

DocumentIds == [i \in 1..MaxRecords |-> <<"d1", "d2", "d3", "d4", "d5", "d6", "d7">>[i]]

Sources == { SubSeq(DocumentIds, 1, n) : n \in 0..MaxRecords }

\* limit: None, a negative int, 0 or a positive int
MaxLimit == 3

Limits == {PyNone} \cup { PyInt(n) : n \in -1..MaxLimit }

\* the arguments and the catalog of one product export
MaxProducts == 2

ProductIds == <<"p1", "p2", "p3", "p4">>

ExportRows ==
    { r \in Products :
        /\ r.deleted_at = NoTime
        /\ r.shop_id \in {ShopNames[1], ShopNames[2]}
        /\ r.allow_to_sell = "True"
        /\ r.is_sold_out = "False"
        /\ \/ r.is_approved = "approved"
           \/ r.is_approved = "draft" /\ r.shop_id = ShopNames[1] }

RawProducts ==
    { [i \in 1..Len(rows) |-> [_id |-> ProductIds[i]] @@ rows[i]] :
          rows \in SeqUpTo(ExportRows, MaxProducts) }

ExportFormats == {"json", "CSV", "xml"}

\* personalize_format: the default of the signature, or one of the two names
PersonalizeFormats == {"True", "custom", "ecommerce"}

\* the events the three sources give one interaction export
MaxExported == 2

ExportedEvents ==
    [USER_ID : {"u1"}, ITEM_ID : {"p1", "p2"},
     EVENT_TYPE : {EventType.VIEW, EventType.PURCHASE}]

ExportedLists == SeqUpTo(ExportedEvents, MaxExported)

\* concurrent set_with_lock calls on one Redis
MaxCallers == 2

CallerNames == <<"a", "b", "c", "d">>

Callers == { CallerNames[i] : i \in 1..MaxCallers }

LockKeys == {"k1", "k2"}

LockValues == {"v1", "v2"}

\* calls on the global firebase_db in one process
MaxCalls == 6

----------------------------------------------------------------------------
(* Each specification runs one part of the service; the variables of the *)
(* other parts stay at rest.                                              *)

ScoreIdle == order = NoOrder /\ event_value = PyNone /\ score_pc = "idle"

TransformIdle ==
    order_item = NoOrderItem /\ personalize_data = NoResult /\ tr_pc = "idle"

FanoutIdle ==
    /\ doc = NoDoc
    /\ raw_interaction = _handle_interaction_data(NoDoc)
    /\ records = <<>>
    /\ fan_pc = "idle"

StatusIdle ==
    /\ product = NoProduct
    /\ available_shops = {}
    /\ status = ""
    /\ st_pc = "idle"

PipelineIdle ==
    /\ tracking_store = <<>>
    /\ order_item_store = <<>>
    /\ feedback_store = <<>>
    /\ processed_interactions = <<>>
    /\ personalize_interactions = <<>>
    /\ idx = 0
    /\ pl_pc = "idle"
    /\ personalize_format = "custom"
    /\ tracking_fetch = ""
    /\ raw_interactions = <<>>
    /\ exception = ""

PriceIdle ==
    price_product = NoPriceProduct /\ price_info = NoPriceInfo /\ pr_pc = "idle"

CategoryIdle ==
    /\ categories = <<>>
    /\ tree = <<>>
    /\ flat_categories = <<>>
    /\ flat_again = <<>>
    /\ cat_pc = "idle"

CatalogIdle == PriceIdle /\ CategoryIdle

PageIdle ==
    /\ pg_source = <<>>
    /\ pg_limit = PyNone
    /\ all_results = <<>>
    /\ last_doc = NoDocument
    /\ requests = <<>>
    /\ pg_error = ""
    /\ pg_result = <<>>
    /\ pg_pc = "idle"

ProductExportIdle ==
    /\ px_format = ""
    /\ px_personalize_format = ""
    /\ raw_products = <<>>
    /\ shop_store = {}
    /\ px_available_shops = {}
    /\ shop_fetches = 0
    /\ processed_products = Unbound
    /\ px_idx = 0
    /\ px_result = NotReturned
    /\ px_pc = "idle"

InteractionExportIdle ==
    /\ ie_format = ""
    /\ ie_personalize_format = ""
    /\ ie_interactions = <<>>
    /\ ie_processed = <<>>
    /\ ie_result = NotReturned
    /\ ie_pc = "idle"

LockIdle ==
    /\ lk_key = <<>>
    /\ lk_value = <<>>
    /\ lock_store = <<>>
    /\ redis_store = <<>>
    /\ lk_result = <<>>
    /\ lk_pc = <<>>

FirebaseIdle ==
    /\ firebase_db = FirebaseDB
    /\ fb_config = ""
    /\ fb_attempts = 0
    /\ fb_failed = FALSE
    /\ fb_last = ""
    /\ fb_calls = 0

ServiceIdle ==
    /\ PageIdle
    /\ ProductExportIdle
    /\ InteractionExportIdle
    /\ LockIdle
    /\ FirebaseIdle

----------------------------------------------------------------------------
(* SpecScore: _calculate_event_value applied to one order *)

ScoreInit ==
    /\ order \in ScoreOrders
    /\ event_value = PyNone
    /\ score_pc = "call"
    /\ TransformIdle
    /\ FanoutIdle
    /\ StatusIdle
    /\ PipelineIdle
    /\ CatalogIdle
    /\ ServiceIdle

CalculateEventValue ==
    /\ score_pc = "call"
    /\ event_value' = _calculate_event_value(order)
    /\ score_pc' = "returned"
    /\ UNCHANGED <<order, transformVars, fanoutVars, statusVars, pipelineVars,
                   catalogVars, serviceVars>>

ScoreNext == CalculateEventValue

SpecScore == ScoreInit /\ [][ScoreNext]_vars

----------------------------------------------------------------------------
(* SpecTransform: _transform_order_item_to_personalize applied to one item *)

TransformInit ==
    /\ order_item \in TransformOrderItems
    /\ personalize_data = NoResult
    /\ tr_pc = "call"
    /\ ScoreIdle
    /\ FanoutIdle
    /\ StatusIdle
    /\ PipelineIdle
    /\ CatalogIdle
    /\ ServiceIdle

TransformOrderItem ==
    /\ tr_pc = "call"
    /\ personalize_data' = _transform_order_item_to_personalize(order_item)
    /\ tr_pc' = "done"
    /\ UNCHANGED <<order_item, scoreVars, fanoutVars, statusVars, pipelineVars,
                   catalogVars, serviceVars>>

TransformNext == TransformOrderItem

SpecTransform == TransformInit /\ [][TransformNext]_vars

----------------------------------------------------------------------------
(* SpecFanout: one tracking document through _handle_interaction_data and *)
(* then through the normaliser of either output format                    *)

FanoutInit ==
    /\ doc \in TrackingDocs
    /\ raw_interaction = _handle_interaction_data(NoDoc)
    /\ records = <<>>
    /\ fan_pc = "fetched"
    /\ ScoreIdle
    /\ TransformIdle
    /\ StatusIdle
    /\ PipelineIdle
    /\ CatalogIdle
    /\ ServiceIdle

HandleInteractionData ==
    /\ fan_pc = "fetched"
    /\ raw_interaction' = _handle_interaction_data(doc)
    /\ fan_pc' = "handled"
    /\ UNCHANGED <<doc, records, scoreVars, transformVars, statusVars, pipelineVars,
                   catalogVars, serviceVars>>

ProcessInteraction ==
    /\ fan_pc = "handled"
    /\ records' = _process_interaction_for_personalize(raw_interaction)
    /\ fan_pc' = "custom"
    /\ UNCHANGED <<doc, raw_interaction, scoreVars, transformVars, statusVars, pipelineVars,
                   catalogVars, serviceVars>>

ProcessInteractionEcommerce ==
    /\ fan_pc = "handled"
    /\ records' = _process_interaction_for_personalize_ecommerce(raw_interaction)
    /\ fan_pc' = "ecommerce"
    /\ UNCHANGED <<doc, raw_interaction, scoreVars, transformVars, statusVars, pipelineVars,
                   catalogVars, serviceVars>>

FanoutNext ==
    \/ HandleInteractionData
    \/ ProcessInteraction
    \/ ProcessInteractionEcommerce

SpecFanout == FanoutInit /\ [][FanoutNext]_vars

----------------------------------------------------------------------------
(* SpecStatus: _determine_product_status applied to one product row *)

StatusInit ==
    /\ product \in Products
    /\ available_shops \in SUBSET ShopIds
    /\ status = ""
    /\ st_pc = "call"
    /\ ScoreIdle
    /\ TransformIdle
    /\ FanoutIdle
    /\ PipelineIdle
    /\ CatalogIdle
    /\ ServiceIdle

DetermineProductStatus ==
    /\ st_pc = "call"
    /\ status' = _determine_product_status(product, available_shops)
    /\ st_pc' = "returned"
    /\ UNCHANGED <<product, available_shops, scoreVars, transformVars, fanoutVars,
                   pipelineVars, catalogVars, serviceVars>>

StatusNext == DetermineProductStatus

SpecStatus == StatusInit /\ [][StatusNext]_vars

----------------------------------------------------------------------------
(* SpecPipeline: get_interactions_for_personalize over the three sources, *)
(* one record per step                                                    *)

otherVars == <<scoreVars, transformVars, fanoutVars, statusVars, catalogVars, serviceVars>>

storeVars == <<tracking_store, order_item_store, feedback_store, personalize_format>>

PipelineInit ==
    /\ tracking_store \in SeqUpTo(PipelineTracking, MaxTracking)
    /\ order_item_store \in SeqUpTo(PipelineOrderItems, MaxOrderItems)
    /\ feedback_store \in SeqUpTo(PipelineFeedbacks, MaxFeedbacks)
    /\ personalize_format \in {"custom", "ecommerce"}
    /\ processed_interactions = <<>>
    /\ personalize_interactions = <<>>
    /\ idx = 0
    /\ pl_pc = "start"
    /\ tracking_fetch = ""
    /\ raw_interactions = <<>>
    /\ exception = ""
    /\ ScoreIdle
    /\ TransformIdle
    /\ FanoutIdle
    /\ StatusIdle
    /\ CatalogIdle
    /\ ServiceIdle

\* raw_interactions = await self._get_interactions_for_personalize():
\* the records of the store; [] when Firebase is not available; [] when the
\* first query.stream() raises (the pagination loop breaks and returns what
\* it has, and every store of the model fits in the first batch)
GetInteractions ==
    /\ pl_pc = "start"
    /\ \E outcome \in {"ok", "unavailable", "raised"} :
           /\ tracking_fetch' = outcome
           /\ raw_interactions' = IF outcome = "ok" THEN tracking_store ELSE <<>>
    /\ pl_pc' = "behavioral"
    /\ idx' = 1
    /\ UNCHANGED <<storeVars, processed_interactions, personalize_interactions,
                   exception, otherVars>>

\* one turn of `for raw_interaction in raw_interactions`
ProcessRawInteraction ==
    /\ pl_pc = "behavioral"
    /\ idx <= Len(raw_interactions)
    /\ processed_interactions' =
           extend(processed_interactions,
                  IF personalize_format = "ecommerce"
                  THEN _process_interaction_for_personalize_ecommerce(
                           raw_interactions[idx])
                  ELSE _process_interaction_for_personalize(raw_interactions[idx]))
    /\ idx' = idx + 1
    /\ UNCHANGED <<storeVars, personalize_interactions, pl_pc, tracking_fetch,
                   raw_interactions, exception, otherVars>>

\* _get_buy_product_interactions: the order items are read, the list is new
GetBuyProductInteractions ==
    /\ pl_pc = "behavioral"
    /\ idx > Len(raw_interactions)
    /\ pl_pc' = "purchase"
    /\ personalize_interactions' = <<>>
    /\ idx' = 1
    /\ UNCHANGED <<storeVars, processed_interactions, tracking_fetch,
                   raw_interactions, exception, otherVars>>

\* get_all_order_items raises (the order store cannot be reached): nothing
\* between the aggregate and the caller of get_interactions_for_personalize
\* catches it
GetAllOrderItemsRaises ==
    /\ pl_pc = "behavioral"
    /\ idx > Len(raw_interactions)
    /\ pl_pc' = "raised"
    /\ exception' = "get_all_order_items"
    /\ UNCHANGED <<storeVars, processed_interactions, personalize_interactions,
                   idx, tracking_fetch, raw_interactions, otherVars>>

\* one turn of `for order_item in order_items`; an exception of the
\* transform leaves _get_buy_product_interactions and its caller
TransformNextOrderItem ==
    /\ pl_pc = "purchase"
    /\ idx <= Len(order_item_store)
    /\ LET result ==
               IF personalize_format = "ecommerce"
               THEN _transform_order_item_to_personalize_ecommerce(
                        order_item_store[idx])
               ELSE _transform_order_item_to_personalize(order_item_store[idx])
       IN  IF result.kind = "raise"
           THEN /\ pl_pc' = "raised"
                /\ exception' = "_transform_order_item_to_personalize"
                /\ UNCHANGED <<personalize_interactions, idx>>
           ELSE /\ personalize_interactions' =
                      IF KeepInteraction(result)
                      THEN Append(personalize_interactions, result.data)
                      ELSE personalize_interactions
                /\ idx' = idx + 1
                /\ UNCHANGED <<pl_pc, exception>>
    /\ UNCHANGED <<storeVars, processed_interactions, tracking_fetch,
                   raw_interactions, otherVars>>

\* _get_buy_product_interactions returns, its list is appended and the
\* feedbacks are read
ExtendBuyProductInteractions ==
    /\ pl_pc = "purchase"
    /\ idx > Len(order_item_store)
    /\ processed_interactions' =
           extend(processed_interactions, personalize_interactions)
    /\ pl_pc' = "review"
    /\ idx' = 1
    /\ UNCHANGED <<storeVars, personalize_interactions, tracking_fetch,
                   raw_interactions, exception, otherVars>>

\* the purchase list is appended, then get_all_feedback raises
GetAllFeedbackRaises ==
    /\ pl_pc = "purchase"
    /\ idx > Len(order_item_store)
    /\ processed_interactions' =
           extend(processed_interactions, personalize_interactions)
    /\ pl_pc' = "raised"
    /\ exception' = "get_all_feedback"
    /\ UNCHANGED <<storeVars, personalize_interactions, idx, tracking_fetch,
                   raw_interactions, otherVars>>

\* _get_feeback_interactions, one feedback per step, appended on return
\* (personalize_interactions keeps the purchase list)
TransformNextFeedback ==
    /\ pl_pc = "review"
    /\ idx <= Len(feedback_store)
    /\ processed_interactions' =
           Append(processed_interactions,
                  IF personalize_format = "ecommerce"
                  THEN _transform_feedback_to_personalize_ecommerce(
                           feedback_store[idx])
                  ELSE _transform_feedback_to_personalize(feedback_store[idx]))
    /\ idx' = idx + 1
    /\ UNCHANGED <<storeVars, personalize_interactions, pl_pc, tracking_fetch,
                   raw_interactions, exception, otherVars>>

ReturnInteractions ==
    /\ pl_pc = "review"
    /\ idx > Len(feedback_store)
    /\ pl_pc' = "done"
    /\ UNCHANGED <<storeVars, processed_interactions, personalize_interactions,
                   idx, tracking_fetch, raw_interactions, exception, otherVars>>

PipelineNext ==
    \/ GetInteractions
    \/ ProcessRawInteraction
    \/ GetBuyProductInteractions
    \/ GetAllOrderItemsRaises
    \/ TransformNextOrderItem
    \/ ExtendBuyProductInteractions
    \/ GetAllFeedbackRaises
    \/ TransformNextFeedback
    \/ ReturnInteractions

SpecPipeline == PipelineInit /\ [][PipelineNext]_vars

----------------------------------------------------------------------------
(* SpecPrice: extract_price_info applied to one product row *)

PriceInit ==
    /\ price_product \in PriceProducts
    /\ price_info = NoPriceInfo
    /\ pr_pc = "call"
    /\ CategoryIdle
    /\ ScoreIdle
    /\ TransformIdle
    /\ FanoutIdle
    /\ StatusIdle
    /\ PipelineIdle
    /\ ServiceIdle

ExtractPriceInfo ==
    /\ pr_pc = "call"
    /\ price_info' = extract_price_info(price_product)
    /\ pr_pc' = "returned"
    /\ UNCHANGED <<price_product, categoryVars, scoreVars, transformVars,
                   fanoutVars, statusVars, pipelineVars, serviceVars>>

PriceNext == ExtractPriceInfo

SpecPrice == PriceInit /\ [][PriceNext]_vars

----------------------------------------------------------------------------
(* SpecCategory: get_tree_categories and flatten_tree over one flat list, *)
(* then the tree built again from the flattened list                     *)

CategoryInit ==
    /\ categories \in CategoryLists
    /\ tree = <<>>
    /\ flat_categories = <<>>
    /\ flat_again = <<>>
    /\ cat_pc = "list"
    /\ PriceIdle
    /\ ScoreIdle
    /\ TransformIdle
    /\ FanoutIdle
    /\ StatusIdle
    /\ PipelineIdle
    /\ ServiceIdle

CategoryOthers ==
    <<priceVars, scoreVars, transformVars, fanoutVars, statusVars, pipelineVars,
      serviceVars>>

GetTreeAll ==
    /\ cat_pc = "list"
    /\ tree' = get_tree_all(categories)
    /\ cat_pc' = "tree"
    /\ UNCHANGED <<categories, flat_categories, flat_again, CategoryOthers>>

FlattenTree ==
    /\ cat_pc = "tree"
    /\ flat_categories' = flatten_tree(tree, 1, NullId)
    /\ cat_pc' = "flat"
    /\ UNCHANGED <<categories, tree, flat_again, CategoryOthers>>

\* flatten(build(flatten(x))) for the tree x
FlattenRebuilt ==
    /\ cat_pc = "flat"
    /\ flat_again' = flatten_tree(get_tree_all(flat_categories), 1, NullId)
    /\ cat_pc' = "round_trip"
    /\ UNCHANGED <<categories, tree, flat_categories, CategoryOthers>>

CategoryNext ==
    \/ GetTreeAll
    \/ FlattenTree
    \/ FlattenRebuilt

SpecCategory == CategoryInit /\ [][CategoryNext]_vars

----------------------------------------------------------------------------
(* SpecPagination: one call of _execute_tracking_query_paginated. Every    *)
(* action is one pass of the `while True` loop; a pass that leaves the loop *)
(* also evaluates the return expression.                                    *)

PageOthers ==
    <<scoreVars, transformVars, fanoutVars, statusVars, pipelineVars, catalogVars,
      productExportVars, interactionExportVars, lockVars, firebaseVars>>

PageInit ==
    /\ pg_source \in Sources
    /\ pg_limit \in Limits
    /\ all_results = <<>>
    /\ last_doc = NoDocument
    /\ requests = <<>>
    /\ pg_error = ""
    /\ pg_result = <<>>
    /\ pg_pc = "loop"
    /\ ScoreIdle /\ TransformIdle /\ FanoutIdle /\ StatusIdle /\ PipelineIdle
    /\ CatalogIdle
    /\ ProductExportIdle
    /\ InteractionExportIdle
    /\ LockIdle
    /\ FirebaseIdle

\* the query of this pass
PageQuery ==
    [start_after |-> last_doc,
     size |-> current_batch_size(remaining(pg_limit, all_results))]

PageDocs == stream(pg_source, last_doc, PageQuery.size)

PageReturn(results) ==
    /\ pg_result' = paginated_return(results, pg_limit)
    /\ pg_pc' = "returned"

\* if remaining <= 0: break
BreakOnRemaining ==
    /\ pg_pc = "loop"
    /\ remaining(pg_limit, all_results) <= 0
    /\ PageReturn(all_results)
    /\ UNCHANGED <<pg_source, pg_limit, all_results, last_doc, requests, pg_error>>
    /\ UNCHANGED PageOthers

\* query.stream() raises: except Exception: break
StreamRaises ==
    /\ pg_pc = "loop"
    /\ remaining(pg_limit, all_results) > 0
    /\ Len(requests) <= MaxRecords
    /\ requests' = Append(requests, PageQuery)
    /\ pg_error' = "stream"
    /\ all_results' = all_results
    /\ PageReturn(all_results')
    /\ UNCHANGED <<pg_source, pg_limit, last_doc>>
    /\ UNCHANGED PageOthers

\* if not docs: break
BreakOnNoDocs ==
    /\ pg_pc = "loop"
    /\ remaining(pg_limit, all_results) > 0
    /\ Len(requests) <= MaxRecords
    /\ PageDocs = <<>>
    /\ requests' = Append(requests, PageQuery)
    /\ PageReturn(all_results)
    /\ UNCHANGED <<pg_source, pg_limit, all_results, last_doc, pg_error>>
    /\ UNCHANGED PageOthers

\* _handle_interaction_data raises on the batch: except Exception: break
HandleRaises ==
    /\ pg_pc = "loop"
    /\ remaining(pg_limit, all_results) > 0
    /\ Len(requests) <= MaxRecords
    /\ PageDocs # <<>>
    /\ requests' = Append(requests, PageQuery)
    /\ pg_error' = "handle"
    /\ all_results' = results_on_exception(all_results, PageDocs)
    /\ PageReturn(all_results')
    /\ UNCHANGED <<pg_source, pg_limit, last_doc>>
    /\ UNCHANGED PageOthers

\* the batch is added and the cursor moved; a short batch ends the loop
FetchBatch ==
    /\ pg_pc = "loop"
    /\ remaining(pg_limit, all_results) > 0
    /\ Len(requests) <= MaxRecords
    /\ PageDocs # <<>>
    /\ requests' = Append(requests, PageQuery)
    /\ all_results' = all_results \o batch_results(PageDocs)
    /\ last_doc' = next_last_doc(PageDocs)
    /\ IF Len(PageDocs) < PageQuery.size
       THEN PageReturn(all_results')
       ELSE UNCHANGED <<pg_result, pg_pc>>
    /\ UNCHANGED <<pg_source, pg_limit, pg_error>>
    /\ UNCHANGED PageOthers

PageNext ==
    \/ BreakOnRemaining
    \/ StreamRaises
    \/ BreakOnNoDocs
    \/ HandleRaises
    \/ FetchBatch

SpecPagination == PageInit /\ [][PageNext]_vars

\* the event loop runs the coroutine to its end
SpecPaginationFair == SpecPagination /\ WF_vars(PageNext)

----------------------------------------------------------------------------
(* SpecProductExport: one call of export_products_for_personalize, while   *)
(* shops are approved and disapproved in the database                       *)

ProductExportOthers ==
    <<scoreVars, transformVars, fanoutVars, statusVars, pipelineVars, catalogVars,
      pageVars, interactionExportVars, lockVars, firebaseVars>>

ProductExportInit ==
    /\ px_format \in ExportFormats
    /\ px_personalize_format \in PersonalizeFormats
    /\ raw_products \in RawProducts
    /\ shop_store \in SUBSET ShopIds
    /\ px_available_shops = {}
    /\ shop_fetches = 0
    /\ processed_products = Unbound
    /\ px_idx = 0
    /\ px_result = NotReturned
    /\ px_pc = "call"
    /\ ScoreIdle /\ TransformIdle /\ FanoutIdle /\ StatusIdle /\ PipelineIdle
    /\ CatalogIdle
    /\ PageIdle
    /\ InteractionExportIdle
    /\ LockIdle
    /\ FirebaseIdle

\* another request approves or disapproves a shop while the export runs
ShopStoreChanges ==
    /\ px_pc \in {"call", "custom", "ecommerce", "export"}
    /\ \E shop \in ShopIds :
           shop_store' = IF shop \in shop_store
                         THEN shop_store \ {shop}
                         ELSE shop_store \cup {shop}
    /\ UNCHANGED <<px_format, px_personalize_format, raw_products,
                   px_available_shops, shop_fetches, processed_products, px_idx,
                   px_result, px_pc>>
    /\ UNCHANGED ProductExportOthers

\* if not raw_products: return {"success": False, ...}
ExportNoProducts ==
    /\ px_pc = "call"
    /\ raw_products = <<>>
    /\ px_result' = NoDataResult
    /\ px_pc' = "done"
    /\ UNCHANGED <<px_format, px_personalize_format, raw_products, shop_store,
                   px_available_shops, shop_fetches, processed_products, px_idx>>
    /\ UNCHANGED ProductExportOthers

\* personalize_format == "custom": _process_products_for_personalize reads the
\* categories and the shops, then starts its loop
StartProcessProducts ==
    /\ px_pc = "call"
    /\ raw_products # <<>>
    /\ px_personalize_format = "custom"
    /\ px_available_shops' = shop_store
    /\ shop_fetches' = shop_fetches + 1
    /\ px_idx' = 1
    /\ px_pc' = "custom"
    /\ UNCHANGED <<px_format, px_personalize_format, raw_products, shop_store,
                   processed_products, px_result>>
    /\ UNCHANGED ProductExportOthers

\* get_available_shops raises: the except of the export wraps it
GetAvailableShopsRaises ==
    /\ px_pc = "call"
    /\ raw_products # <<>>
    /\ px_personalize_format = "custom"
    /\ shop_fetches' = shop_fetches + 1
    /\ px_result' = DatabaseException("get_available_shops")
    /\ px_pc' = "done"
    /\ UNCHANGED <<px_format, px_personalize_format, raw_products, shop_store,
                   px_available_shops, processed_products, px_idx>>
    /\ UNCHANGED ProductExportOthers

\* personalize_format == "ecommerce": _process_products_for_ecommerce
StartProcessEcommerce ==
    /\ px_pc = "call"
    /\ raw_products # <<>>
    /\ px_personalize_format = "ecommerce"
    /\ px_idx' = 1
    /\ px_pc' = "ecommerce"
    /\ UNCHANGED <<px_format, px_personalize_format, raw_products, shop_store,
                   px_available_shops, shop_fetches, processed_products, px_result>>
    /\ UNCHANGED ProductExportOthers

\* neither branch of the if / elif is taken: processed_products stays unbound
NoProcessingBranch ==
    /\ px_pc = "call"
    /\ raw_products # <<>>
    /\ px_personalize_format \notin {"custom", "ecommerce"}
    /\ px_pc' = "export"
    /\ UNCHANGED <<px_format, px_personalize_format, raw_products, shop_store,
                   px_available_shops, shop_fetches, processed_products, px_idx,
                   px_result>>
    /\ UNCHANGED ProductExportOthers

\* one turn of `for product in raw_products`; a raising product is skipped
ProcessSingleProduct ==
    /\ px_pc \in {"custom", "ecommerce"}
    /\ px_idx <= Len(raw_products)
    /\ \E raised \in BOOLEAN :
           LET row == IF px_pc = "custom"
                      THEN _process_single_product(
                               raw_products[px_idx],
                               shops_for_product(px_available_shops, shop_store))
                      ELSE _process_single_product_for_ecommerce(
                               raw_products[px_idx])
               sofar == IF processed_products.bound
                        THEN processed_products.rows ELSE <<>>
           IN  processed_products' =
                   Bound(IF raised THEN sofar ELSE Append(sofar, row))
    /\ px_idx' = px_idx + 1
    /\ UNCHANGED <<px_format, px_personalize_format, raw_products, shop_store,
                   px_available_shops, shop_fetches, px_result, px_pc>>
    /\ UNCHANGED ProductExportOthers

\* return processed_products, assigned in export_products_for_personalize
ReturnProcessedProducts ==
    /\ px_pc \in {"custom", "ecommerce"}
    /\ px_idx > Len(raw_products)
    /\ px_pc' = "export"
    /\ UNCHANGED <<px_format, px_personalize_format, raw_products, shop_store,
                   px_available_shops, shop_fetches, processed_products, px_idx,
                   px_result>>
    /\ UNCHANGED ProductExportOthers

\* the format branches and the except of the export
ExportProducts ==
    /\ px_pc = "export"
    /\ px_result' = _export_products(px_format, processed_products)
    /\ px_pc' = "done"
    /\ UNCHANGED <<px_format, px_personalize_format, raw_products, shop_store,
                   px_available_shops, shop_fetches, processed_products, px_idx>>
    /\ UNCHANGED ProductExportOthers

ProductExportNext ==
    \/ ShopStoreChanges
    \/ ExportNoProducts
    \/ StartProcessProducts
    \/ GetAvailableShopsRaises
    \/ StartProcessEcommerce
    \/ NoProcessingBranch
    \/ ProcessSingleProduct
    \/ ReturnProcessedProducts
    \/ ExportProducts

SpecProductExport == ProductExportInit /\ [][ProductExportNext]_vars

----------------------------------------------------------------------------
(* SpecInteractionExport: one call of export_interactions_for_personalize; *)
(* the run of the three sources (SpecPipeline) is one step here             *)

InteractionExportOthers ==
    <<scoreVars, transformVars, fanoutVars, statusVars, pipelineVars, catalogVars,
      pageVars, productExportVars, lockVars, firebaseVars>>

InteractionExportInit ==
    /\ ie_format \in ExportFormats \cup {"JSON", "csv"}
    /\ ie_personalize_format \in {"custom", "ecommerce"}
    /\ ie_interactions \in ExportedLists
    /\ ie_processed = <<>>
    /\ ie_result = NotReturned
    /\ ie_pc = "call"
    /\ ScoreIdle /\ TransformIdle /\ FanoutIdle /\ StatusIdle /\ PipelineIdle
    /\ CatalogIdle
    /\ PageIdle
    /\ ProductExportIdle
    /\ LockIdle
    /\ FirebaseIdle

\* get_interactions_for_personalize or its ecommerce twin returns
GetProcessedInteractions ==
    /\ ie_pc = "call"
    /\ ie_processed' = ie_interactions
    /\ ie_pc' = "export"
    /\ UNCHANGED <<ie_format, ie_personalize_format, ie_interactions, ie_result>>
    /\ UNCHANGED InteractionExportOthers

\* the run of the sources raises (a transform or a store read)
GetProcessedInteractionsRaises ==
    /\ ie_pc = "call"
    /\ \E e \in {"transform", "get_all_order_items", "get_all_feedback"} :
           ie_result' = except_Exception(Raised(e))
    /\ ie_pc' = "done"
    /\ UNCHANGED <<ie_format, ie_personalize_format, ie_interactions, ie_processed>>
    /\ UNCHANGED InteractionExportOthers

\* return await self._export_to_format(processed_interactions, format)
ExportToFormat ==
    /\ ie_pc = "export"
    /\ ie_result' = except_Exception(_export_to_format(ie_processed, ie_format))
    /\ ie_pc' = "done"
    /\ UNCHANGED <<ie_format, ie_personalize_format, ie_interactions, ie_processed>>
    /\ UNCHANGED InteractionExportOthers

InteractionExportNext ==
    \/ GetProcessedInteractions
    \/ GetProcessedInteractionsRaises
    \/ ExportToFormat

SpecInteractionExport == InteractionExportInit /\ [][InteractionExportNext]_vars

----------------------------------------------------------------------------
(* SpecLock: concurrent calls of set_with_lock; each await is one step and *)
(* Redis drops a lock entry when its ttl (10 seconds) has run out           *)

LockOthers ==
    <<scoreVars, transformVars, fanoutVars, statusVars, pipelineVars, catalogVars,
      pageVars, productExportVars, interactionExportVars, firebaseVars>>

LockInit ==
    /\ lk_key \in [Callers -> LockKeys]
    /\ lk_value \in [Callers -> LockValues]
    /\ lock_store = [k \in LockKeys |-> NoHolder]
    /\ redis_store = [k \in LockKeys |-> NoHolder]
    /\ lk_result = [c \in Callers |-> ""]
    /\ lk_pc = [c \in Callers |-> "call"]
    /\ ScoreIdle /\ TransformIdle /\ FanoutIdle /\ StatusIdle /\ PipelineIdle
    /\ CatalogIdle
    /\ PageIdle
    /\ ProductExportIdle
    /\ InteractionExportIdle
    /\ FirebaseIdle

\* lock_acquired = await self.acquire_lock(key); if not lock_acquired:
\* return False
AcquireLock(c) ==
    /\ lk_pc[c] = "call"
    /\ LET got == acquire_lock(lock_store, lk_key[c], c)
       IN  /\ lock_store' = got.locks
           /\ IF got.acquired
              THEN /\ lk_pc' = [lk_pc EXCEPT ![c] = "locked"]
                   /\ UNCHANGED lk_result
              ELSE /\ lk_pc' = [lk_pc EXCEPT ![c] = "returned"]
                   /\ lk_result' = [lk_result EXCEPT ![c] = "False"]
    /\ UNCHANGED <<lk_key, lk_value, redis_store>>
    /\ UNCHANGED LockOthers

\* acquire_lock: the Redis call raises, except returns False
AcquireLockRaises(c) ==
    /\ lk_pc[c] = "call"
    /\ lk_pc' = [lk_pc EXCEPT ![c] = "returned"]
    /\ lk_result' = [lk_result EXCEPT ![c] = "False"]
    /\ UNCHANGED <<lk_key, lk_value, lock_store, redis_store>>
    /\ UNCHANGED LockOthers

\* result = await self.set(key, value, ttl); set returns False when it fails
SetValue(c) ==
    /\ lk_pc[c] = "locked"
    /\ \E ok \in BOOLEAN :
           /\ redis_store' = IF ok
                             THEN [redis_store EXCEPT ![lk_key[c]] = lk_value[c]]
                             ELSE redis_store
           /\ lk_result' = [lk_result EXCEPT ![c] = IF ok THEN "True" ELSE "False"]
    /\ lk_pc' = [lk_pc EXCEPT ![c] = "release"]
    /\ UNCHANGED <<lk_key, lk_value, lock_store>>
    /\ UNCHANGED LockOthers

\* finally: await self.release_lock(key), then the result is returned
ReleaseLock(c) ==
    /\ lk_pc[c] = "release"
    /\ lock_store' = release_lock(lock_store, lk_key[c])
    /\ lk_pc' = [lk_pc EXCEPT ![c] = "returned"]
    /\ UNCHANGED <<lk_key, lk_value, redis_store, lk_result>>
    /\ UNCHANGED LockOthers

\* release_lock: the Redis call raises, except returns False; the entry stays
ReleaseLockRaises(c) ==
    /\ lk_pc[c] = "release"
    /\ lk_pc' = [lk_pc EXCEPT ![c] = "returned"]
    /\ UNCHANGED <<lk_key, lk_value, lock_store, redis_store, lk_result>>
    /\ UNCHANGED LockOthers

\* ex=ttl: Redis removes the lock entry when its time is over
ExpireLock(k) ==
    /\ lk_pc # <<>>
    /\ lock_store[k] # NoHolder
    /\ lock_store' = [lock_store EXCEPT ![k] = NoHolder]
    /\ UNCHANGED <<lk_key, lk_value, redis_store, lk_result, lk_pc>>
    /\ UNCHANGED LockOthers

LockNext ==
    \/ \E c \in Callers : AcquireLock(c)
    \/ \E c \in Callers : AcquireLockRaises(c)
    \/ \E c \in Callers : SetValue(c)
    \/ \E c \in Callers : ReleaseLock(c)
    \/ \E c \in Callers : ReleaseLockRaises(c)
    \/ \E k \in LockKeys : ExpireLock(k)

SpecLock == LockInit /\ [][LockNext]_vars

----------------------------------------------------------------------------
(* SpecFirebase: firestore accesses and disconnect() calls on firebase_db *)

FirebaseOthers ==
    <<scoreVars, transformVars, fanoutVars, statusVars, pipelineVars, catalogVars,
      pageVars, productExportVars, interactionExportVars, lockVars>>

FirebaseInit ==
    /\ firebase_db = FirebaseDB
    /\ fb_config \in {"True", "False"}
    /\ fb_attempts = 0
    /\ fb_failed = FALSE
    /\ fb_last = "init"
    /\ fb_calls = 0
    /\ ScoreIdle /\ TransformIdle /\ FanoutIdle /\ StatusIdle /\ PipelineIdle
    /\ CatalogIdle
    /\ PageIdle
    /\ ProductExportIdle
    /\ InteractionExportIdle
    /\ LockIdle

\* the firestore property: self._ensure_connection(); return self.firestore_client
AccessFirestore ==
    /\ fb_calls < MaxCalls
    /\ fb_last # ""
    /\ \E outcome \in ConnectOutcomes(fb_config) :
           LET call == _ensure_connection(firebase_db, outcome)
           IN  /\ firebase_db' = call.self
               /\ fb_attempts' = IF call.attempted THEN fb_attempts + 1 ELSE fb_attempts
               /\ fb_failed' = (fb_failed \/ (call.attempted /\ call.raised))
               /\ fb_last' = IF call.raised THEN "RuntimeError"
                             ELSE call.self.firestore_client
    /\ fb_calls' = fb_calls + 1
    /\ UNCHANGED fb_config
    /\ UNCHANGED FirebaseOthers

\* await firebase_db.disconnect()
Disconnect ==
    /\ fb_calls < MaxCalls
    /\ fb_last # ""
    /\ \E delete_app_raises \in BOOLEAN :
           firebase_db' = disconnect(firebase_db, delete_app_raises)
    /\ fb_last' = "disconnect"
    /\ fb_calls' = fb_calls + 1
    /\ UNCHANGED <<fb_config, fb_attempts, fb_failed>>
    /\ UNCHANGED FirebaseOthers

FirebaseNext ==
    \/ AccessFirestore
    \/ Disconnect

SpecFirebase == FirebaseInit /\ [][FirebaseNext]_vars

----------------------------------------------------------------------------
(* Claims about the scoring matrix, under SpecScore *)

\* C2: for a cash-on-delivery order, _calculate_event_value returns the COD
\* row of the scoring table for every listed (shipping_status,
\* payment_status): pending/pending 3.0; wait_to_pick|shipping|shipped with
\* paid|pending 5.0; canceling|canceled with pending 0.5, with paid 1.5;
\* return|returning with paid|pending 1.5.
C2_CodRows ==
    (score_pc = "returned" /\ order.payment_method_id = CASH_ID) =>
        LET s == order.shipping_status
            p == order.payment_status
        IN  /\ (s = "pending" /\ p = "pending") => event_value = Float(30)
            /\ (s \in {"wait_to_pick", "shipping", "shipped"}
                    /\ p \in {"paid", "pending"}) => event_value = Float(50)
            /\ (s \in {"canceling", "canceled"} /\ p = "pending")
                    => event_value = Float(5)
            /\ (s \in {"canceling", "canceled"} /\ p = "paid")
                    => event_value = Float(15)
            /\ (s \in {"return", "returning"} /\ p \in {"paid", "pending"})
                    => event_value = Float(15)

C2_Witness ==
    /\ score_pc = "returned"
    /\ order.payment_method_id = CASH_ID
    /\ order.shipping_status = "canceled"
    /\ order.payment_status = "paid"
    /\ event_value = Float(15)

\* C3: for an order paid with any id of E_PAYMENT_IDS, _calculate_event_value
\* returns the e-payment row of the table for every listed pair:
\* wait_to_pick|shipping|shipped with paid 5.0; pending/pending 1.0;
\* canceling|canceled with paid 2.0; return|returning with paid 1.5.
C3_EpaymentRows ==
    (score_pc = "returned" /\ order.payment_method_id \in E_PAYMENT_IDS) =>
        LET s == order.shipping_status
            p == order.payment_status
        IN  /\ (s \in {"wait_to_pick", "shipping", "shipped"} /\ p = "paid")
                    => event_value = Float(50)
            /\ (s = "pending" /\ p = "pending") => event_value = Float(10)
            /\ (s \in {"canceling", "canceled"} /\ p = "paid")
                    => event_value = Float(20)
            /\ (s \in {"return", "returning"} /\ p = "paid")
                    => event_value = Float(15)

C3_Witness ==
    /\ score_pc = "returned"
    /\ order.payment_method_id = BANK_CARD_ONEPAY_ID
    /\ order.shipping_status = "pending"
    /\ order.payment_status = "pending"
    /\ event_value = Float(10)

\* C4: an order whose payment method id is neither the cash id nor an
\* e-payment id (a missing id included) scores 0.5 whatever its
\* shipping_status and payment_status are, present or not.
C4_UnknownMethod ==
    (/\ score_pc = "returned"
     /\ order.payment_method_id # CASH_ID
     /\ order.payment_method_id \notin E_PAYMENT_IDS)
        => event_value = Float(5)

C4_Witness ==
    /\ score_pc = "returned"
    /\ order.payment_method_id = Absent
    /\ order.shipping_status = "shipping"
    /\ order.payment_status = Absent
    /\ event_value = Float(5)

----------------------------------------------------------------------------
(* Claims about the purchase transform, under SpecTransform *)

C9_OrderValue ==
    (tr_pc = "done" /\ personalize_data.kind = "dict") =>
        LET v == order_item.variant
            p == order_item.product
            priced(d) == d.kind = "dict" /\ d.has_price
            value == personalize_data.data.ORDER_VALUE
        IN  /\ priced(v) => value = PyInt(v.before_sale_price)
            /\ (~priced(v) /\ priced(p)) => value = PyInt(p.before_sale_price)

----------------------------------------------------------------------------
(* Claims about the behavioural normaliser, under SpecFanout *)

C6_BehaviouralValue ==
    fan_pc \in {"custom", "ecommerce"} =>
        LET action == raw_interaction.action_type
            weight == IF action = "view_product" THEN PyInt(1)
                      ELSE IF action = "add_product_to_favorite" THEN PyInt(2)
                      ELSE IF action = "add_cart" THEN Float(25)
                      ELSE PyInt(0)
        IN  \A i \in 1..Len(records) : records[i].EVENT_VALUE = weight

C6_Witness ==
    /\ fan_pc = "custom"
    /\ raw_interaction.action_type = "add_cart"
    /\ Len(records) = 3
    /\ \A i \in 1..3 : records[i].EVENT_VALUE = Float(25)

----------------------------------------------------------------------------
(* Claims about the product status resolver, under SpecStatus *)

C11_DeletedFirst ==
    (st_pc = "returned" /\ product.deleted_at = IsoTime(1)) =>
        status = ProductStatus.DELETED

\* a deleted product that is approved, sellable and in stock, of a shop that
\* is not active
C11_Witness ==
    /\ st_pc = "returned"
    /\ product.deleted_at = IsoTime(1)
    /\ product.is_approved = "approved"
    /\ product.allow_to_sell = "True"
    /\ product.is_sold_out = "False"
    /\ product.shop_id = "s1"
    /\ available_shops = {"s2"}
    /\ status = "deleted"

----------------------------------------------------------------------------
(* Claims about the pipeline, under SpecPipeline *)

\* C1: every event the pipeline emits, from any of the three sources,
\* carries an EVENT_VALUE that is set (never None) and is a non-negative
\* number.
C1_EventValueAlwaysSet ==
    \A i \in 1..Len(processed_interactions) :
        /\ ~processed_interactions[i].EVENT_VALUE.isNone
        /\ processed_interactions[i].EVENT_VALUE.tenths >= 0

\* C7 as stated: the number of purchase events _get_buy_product_interactions
\* returns equals the number of order items read from the store.
C7_OneEventPerOrderItem ==
    pl_pc \in {"review", "done"} =>
        Len(personalize_interactions) = Len(order_item_store)

\* C7, amended: whenever _get_buy_product_interactions returns, it returns
\* exactly one purchase event for every order item that carries a joined
\* order, in the order of the items, and none for an order item whose order
\* list is empty.
C7_OneEventPerJoinedOrderItem ==
    pl_pc \in {"review", "done"} =>
        LET joined == { k \in 1..Len(order_item_store) :
                          Len(order_item_store[k].order) > 0 }
        IN  /\ Len(personalize_interactions) = Cardinality(joined)
            /\ \A i \in 1..Len(personalize_interactions) :
                   personalize_interactions[i].EVENT_TYPE = "purchase"

C7_Witness ==
    /\ pl_pc = "review"
    /\ Len(order_item_store) = 2
    /\ order_item_store[1].order = <<>>
    /\ order_item_store[2].order # <<>>
    /\ Len(personalize_interactions) = 1

----------------------------------------------------------------------------
(* Claims about the price aggregation, under SpecPrice *)

\* C12: for every variant list in which at least one variant has a positive
\* before_sale_price, extract_price_info returns PRICE_MIN <= PRICE_MAX, and
\* each of the two is the before_sale_price of some variant of the list.
C12_MinMaxDrawnFromVariants ==
    LET variants == price_product.variants
    IN  ( /\ pr_pc = "returned"
          /\ \E i \in 1..Len(variants) :
                 /\ ~variants[i].before_sale_price.isNone
                 /\ variants[i].before_sale_price.tenths > 0 )
        => /\ ~price_info.PRICE_MIN.isNone
           /\ ~price_info.PRICE_MAX.isNone
           /\ price_info.PRICE_MIN.tenths <= price_info.PRICE_MAX.tenths
           /\ \E i \in 1..Len(variants) :
                  variants[i].before_sale_price = price_info.PRICE_MIN
           /\ \E i \in 1..Len(variants) :
                  variants[i].before_sale_price = price_info.PRICE_MAX

\* two variants priced 2 and 1, in that order
C12_Witness ==
    /\ pr_pc = "returned"
    /\ Len(price_product.variants) = 2
    /\ price_product.variants[1].before_sale_price = PyInt(2)
    /\ price_product.variants[2].before_sale_price = PyInt(1)
    /\ price_info.PRICE_MIN = PyInt(1)
    /\ price_info.PRICE_MAX = PyInt(2)

\* C13: the variant scan ignores null and non-positive values: a variant
\* whose before_sale_price is null, zero or negative never determines
\* PRICE_MIN or PRICE_MAX, so a price taken from the variants is positive.
C13_NonPositiveIgnored ==
    (pr_pc = "returned" /\ price_product.variants # <<>>) =>
        /\ price_info.PRICE_MIN.isNone \/ price_info.PRICE_MIN.tenths > 0
        /\ price_info.PRICE_MAX.isNone \/ price_info.PRICE_MAX.tenths > 0

\* C14: when no variant carries a usable before_sale_price (the list is
\* empty, or every variant's price is missing), PRICE_MIN and PRICE_MAX both
\* equal the product's own before_sale_price; they are null only if the
\* product has no price either.
C14_FallbackToProductPrice ==
    LET variants == price_product.variants
    IN  ( /\ pr_pc = "returned"
          /\ \A i \in 1..Len(variants) : variants[i].before_sale_price.isNone )
        => /\ price_info.PRICE_MIN = price_product.before_sale_price
           /\ price_info.PRICE_MAX = price_product.before_sale_price

----------------------------------------------------------------------------
(* Claims about the category tree, under SpecCategory *)

\* C15: for every flat category list without cycles (distinct ids, any
\* parent_id values), flatten_tree(get_tree_all(list)) holds every id of
\* the list exactly once: no category is lost and none is duplicated.
C15_EveryIdOnce ==
    LET ids == { categories[i].id : i \in 1..Len(categories) }
        acyclic ==
            \E rank \in [ids -> 1..Len(categories)] :
                \A i \in 1..Len(categories) :
                    categories[i].parent_id \in ids =>
                        rank[categories[i].parent_id] < rank[categories[i].id]
    IN  (cat_pc = "flat" /\ acyclic) =>
            /\ Len(flat_categories) = Len(categories)
            /\ \A c \in ids :
                   Cardinality({ i \in 1..Len(flat_categories) :
                                   flat_categories[i].id = c }) = 1

\* C16: round trip: for every category tree x, flatten(build(flatten(x)))
\* equals flatten(x): the same nodes with the same id, level and parent_id,
\* in the same order.
C16_RoundTrip ==
    cat_pc = "round_trip" => flat_again = flat_categories

\* a root listed after its child, then a second root
C16_Witness ==
    /\ cat_pc = "round_trip"
    /\ Len(categories) = 3
    /\ categories[1].parent_id = categories[2].id
    /\ Len(flat_categories) = 3
    /\ flat_categories[1].id = categories[2].id
    /\ flat_categories[2].level = 2
    /\ flat_categories[3].level = 1
    /\ flat_again = flat_categories

\* C17: in the output of flatten_tree every node comes after its parent, a
\* root node carries level 1 and parent_id null, every other node carries
\* its parent's level + 1 and its parent's id, and the level build_tree
\* wrote on a node is the level flatten_tree reports for it.
C17_LevelsAndParents ==
    LET RECURSIVE Written(_)
        Written(nodes) ==
            IF nodes = <<>> THEN {}
            ELSE { <<Head(nodes).id, Head(nodes).level>> }
                     \cup Written(Head(nodes).childs)
                     \cup Written(Tail(nodes))
    IN  cat_pc \in {"flat", "round_trip"} =>
            /\ \A i \in 1..Len(flat_categories) :
                   IF flat_categories[i].parent_id = NullId
                   THEN flat_categories[i].level = 1
                   ELSE \E j \in 1..(i - 1) :
                            /\ flat_categories[j].id = flat_categories[i].parent_id
                            /\ flat_categories[i].level = flat_categories[j].level + 1
            /\ \A r \in 1..Len(tree) :
                   \E i \in 1..Len(flat_categories) :
                       /\ flat_categories[i].id = tree[r].id
                       /\ flat_categories[i].level = 1
                       /\ flat_categories[i].parent_id = NullId
            /\ { <<flat_categories[i].id, flat_categories[i].level>> :
                   i \in 1..Len(flat_categories) } = Written(tree)

\* a chain of three categories listed deepest first
C17_Witness ==
    /\ cat_pc = "flat"
    /\ Len(categories) = 3
    /\ categories[1].parent_id = categories[2].id
    /\ categories[2].parent_id = categories[3].id
    /\ categories[3].parent_id = NullId
    /\ flat_categories[1].id = categories[3].id
    /\ flat_categories[3].id = categories[1].id
    /\ flat_categories[3].level = 3
    /\ flat_categories[3].parent_id = categories[2].id

----------------------------------------------------------------------------
(* Claims about the merge and the failures of the pipeline, under *)
(* SpecPipeline                                                    *)

C19_TransformFailureSkipped ==
    ~(pl_pc = "raised" /\ exception = "_transform_order_item_to_personalize")

\* C20: when one of the three sources cannot be reached, the pipeline still
\* returns the events of the other sources: the run never ends in the
\* exception of a fetch after events of another source were computed.
C20_SourceFailureKeepsOutput ==
    ~( /\ pl_pc = "raised"
       /\ exception \in {"get_all_order_items", "get_all_feedback"}
       /\ processed_interactions # <<>> )

----------------------------------------------------------------------------
(* Claims about the paginated read of the event store, under SpecPagination *)

\* C22: with no limit and no failing fetch the call returns every record of
\* the source once and in cursor order; the first query starts at the
\* beginning and every later one right after the last document of the batch
\* before it
C22_NoLimitDrainsSource ==
    LET ids(rs) == [i \in 1..Len(rs) |-> rs[i].id]
    IN  (pg_pc \in {"loop", "returned"} /\ pg_limit = PyNone /\ pg_error = "") =>
            /\ requests # <<>> => requests[1].start_after = NoDocument
            /\ \A k \in 2..Len(requests) :
                   /\ (k - 1) * batch_size <= Len(pg_source)
                   /\ requests[k].start_after = pg_source[(k - 1) * batch_size]
            /\ ids(all_results) = SubSeq(pg_source, 1, Len(all_results))
            /\ pg_pc = "returned" => ids(pg_result) = pg_source

C22_Witness ==
    /\ pg_pc = "returned"
    /\ pg_limit = PyNone
    /\ pg_error = ""
    /\ Len(requests) >= 3
    /\ Len(pg_source) % batch_size # 0
    /\ Len(pg_result) = Len(pg_source)

\* C23: with a limit L >= 1 and no failing fetch, request k asks for
\* min(batch_size, L - what the batches before it brought), the accumulated
\* count never exceeds L and the call returns the first min(L, n) records
C23_LimitBoundsRequests ==
    LET ids(rs) == [i \in 1..Len(rs) |-> rs[i].id]
        L == pg_limit.tenths \div 10
        Least(a, b) == IF a < b THEN a ELSE b
    IN  (pg_pc \in {"loop", "returned"} /\ ~pg_limit.isNone /\ L >= 1
         /\ pg_error = "") =>
            /\ \A k \in 1..Len(requests) :
                   requests[k].size = Least(batch_size, L - (k - 1) * batch_size)
            /\ Len(all_results) <= L
            /\ pg_pc = "returned" =>
                   ids(pg_result) = SubSeq(pg_source, 1, Least(L, Len(pg_source)))

C23_Witness ==
    /\ pg_pc = "returned"
    /\ ~pg_limit.isNone
    /\ pg_error = ""
    /\ Len(requests) >= 2
    /\ requests[Len(requests)].size < batch_size
    /\ Len(pg_source) > pg_limit.tenths \div 10
    /\ Len(pg_result) = pg_limit.tenths \div 10

\* C24: a raising fetch or a raising batch handler ends the loop at once: the
\* call returns (it does not raise) the records of the whole batches before
\* the failure, and no query is sent twice
C24_FailureReturnsWholeBatches ==
    LET ids(rs) == [i \in 1..Len(rs) |-> rs[i].id]
        done == (Len(requests) - 1) * batch_size
    IN  pg_error # "" =>
            /\ pg_pc = "returned"
            /\ done <= Len(pg_source)
            /\ ids(pg_result) = SubSeq(pg_source, 1, done)
            /\ \A j, k \in 1..Len(requests) :
                   j < k => requests[j].start_after # requests[k].start_after

C24_Witness ==
    /\ pg_pc = "returned"
    /\ pg_error = "handle"
    /\ Len(requests) = 2
    /\ Len(pg_result) = batch_size
    /\ Len(pg_source) > batch_size

\* C27: every pass of the loop either leaves it or adds at least one record
\* and moves the cursor forward, and the call returns in the end, for every
\* source and every limit
C27_LoopTerminates ==
    /\ <>(pg_pc = "returned")
    /\ [][LET Pos(d) == IF d = NoDocument THEN 0
                        ELSE CHOOSE i \in 1..Len(pg_source) : pg_source[i] = d
          IN  pg_pc = "loop" =>
                  \/ pg_pc' = "returned"
                  \/ /\ Len(all_results') > Len(all_results)
                     /\ Pos(last_doc') > Pos(last_doc)]_vars

C27_Witness ==
    /\ pg_pc = "returned"
    /\ Len(requests) = 3
    /\ requests[3].start_after = pg_source[Len(pg_source)]
    /\ Len(all_results) = 2 * batch_size

\* C30: a limit of 0 acts as no limit: every query asks for a full batch and
\* the call returns the whole source (the whole batches before a failure)
C30_ZeroLimitIsNoLimit ==
    LET ids(rs) == [i \in 1..Len(rs) |-> rs[i].id]
    IN  (pg_pc \in {"loop", "returned"} /\ pg_limit = PyInt(0)) =>
            /\ \A k \in 1..Len(requests) : requests[k].size = batch_size
            /\ (pg_pc = "returned" /\ pg_error = "") => ids(pg_result) = pg_source
            /\ (pg_pc = "returned" /\ pg_error # "") =>
                   ids(pg_result) =
                       SubSeq(pg_source, 1, (Len(requests) - 1) * batch_size)

C30_Witness ==
    /\ pg_pc = "returned"
    /\ pg_limit = PyInt(0)
    /\ pg_error = ""
    /\ Len(pg_source) > batch_size
    /\ Len(pg_result) = Len(pg_source)

----------------------------------------------------------------------------
(* Claims about the product export, under SpecProductExport *)

\* C21: called as the route calls it (personalize_format at its default),
\* with format json or csv and a non-empty catalog, the export returns the
\* dataset of the processed products and does not raise
C21_RouteCallReturnsExport ==
    (/\ px_pc = "done"
     /\ px_personalize_format = "True"
     /\ lower(px_format) \in {"json", "csv"}
     /\ raw_products # <<>>) => px_result.kind = "export"

\* C25: in one run of _process_products_for_personalize the shops are read
\* once, before the first product is classified, and every row carries the
\* status computed against that one set, whatever the database holds later
C25_ShopsFetchedOnce ==
    LET product_of(id) ==
            raw_products[CHOOSE i \in 1..Len(raw_products) : raw_products[i]._id = id]
    IN  px_personalize_format = "custom" =>
            /\ shop_fetches <= 1
            /\ processed_products.bound => shop_fetches = 1
            /\ px_pc \in {"custom", "export"} => shop_fetches = 1
            /\ \A k \in 1..Len(processed_products.rows) :
                   processed_products.rows[k].ITEM_STATUS =
                       _determine_product_status(
                           product_of(processed_products.rows[k].ITEM_ID),
                           px_available_shops)

C25_Witness ==
    /\ px_pc = "done"
    /\ px_personalize_format = "custom"
    /\ shop_fetches = 1
    /\ Len(processed_products.rows) = 2
    /\ px_available_shops # shop_store
    /\ processed_products.rows[1].ITEM_STATUS = "active"
    /\ raw_products[1].shop_id \notin shop_store
    /\ processed_products.rows[2].ITEM_STATUS = "unavailable"
    /\ raw_products[2].shop_id \in shop_store
    /\ raw_products[2].is_approved = "approved"

----------------------------------------------------------------------------
(* Claims about the interaction export, under SpecInteractionExport *)

\* C28: with data to export and a format that is neither json nor csv the
\* export ends with a BadRequestException; with no data it returns the
\* {success: False} result without raising, whatever the format
C28_UnsupportedFormatIsBadRequest ==
    (ie_pc = "done" /\ ie_result.detail \notin
         {"transform", "get_all_order_items", "get_all_feedback"}) =>
        /\ (ie_processed # <<>> /\ lower(ie_format) \notin {"json", "csv"}) =>
               ie_result.kind = "BadRequestException"
        /\ ie_processed = <<>> => ie_result = NoDataResult

----------------------------------------------------------------------------
(* Claims about set_with_lock, under SpecLock *)

\* C26: while one caller is between acquiring and releasing the lock of a
\* key no other set_with_lock caller is between acquire and release on that
\* key, and the lock entry of a key belongs to the caller that is there
C26_MutualExclusion ==
    \A c, d \in Callers :
        (/\ lk_pc[c] \in {"locked", "release"}
         /\ lk_key[c] = lk_key[d]
         /\ c # d) =>
            /\ lk_pc[d] \notin {"locked", "release"}
            /\ lock_store[lk_key[c]] \in {c, NoHolder}

----------------------------------------------------------------------------
(* Claims about the FirebaseDB connection, under SpecFirebase *)

\* C29: once a connection attempt has failed, every later firestore access
\* raises RuntimeError and makes no new attempt, whatever accesses and
\* disconnect() calls follow; and _connected implies _connection_attempted
C29_FailedAttemptIsFinal ==
    /\ [](firebase_db._connected => firebase_db._connection_attempted)
    /\ [][fb_failed =>
              /\ fb_attempts' = fb_attempts
              /\ fb_last' \in {"RuntimeError", "disconnect"}]_vars

====
